---- MODULE Spec2Model ----
(***************************************************************************)
(* Verification model of the Shipscoper pipeline.                          *)
(*                                                                         *)
(* Part 1: the Change Detector (src/check_eta_changes.py).  One cycle of   *)
(* check_eta_changes is StartCycle, then one ProcessWatch per active watch  *)
(* in the order the datastore returned them, then FinishCycle.  Every call *)
(* to a collaborator (datastore, identity lookup, SMTP) may raise; which   *)
(* ones do is the input of the step.  Between cycles SyncSchedule changes  *)
(* the newest observed ETA of a vessel.                                     *)
(*                                                                         *)
(* Part 2: the Cross-Matcher (src/processor/excel_processor.py).           *)
(* cross_match is MatchOne per Eurogate record, then AppendUnmatched.      *)
(* _merge_pair alone is MergeOnly.                                         *)
(*                                                                         *)
(* Part 3: the Grid Resolver (src/scraper/eurogate_scraper.py).            *)
(* _build_logical_grid is GridRow per physical table row.                  *)
(*                                                                         *)
(* Part 4: normalize_vessel_name (src/utils/normalization.py), applied to  *)
(* a name, to its own result, and to variations of the name.               *)
(*                                                                         *)
(* Part 5: run_full (src/orchestrator/pipeline.py): RunScrape, RunProcess, *)
(* SyncToSupabase, CheckWatchlist, ReturnSummary.                          *)
(*                                                                         *)
(* Part 6: the row loops of EurogateScraper.parse and HHLAScraper.parse    *)
(* (src/scraper/eurogate_scraper.py, src/scraper/hhla_scraper.py), one     *)
(* ParseRow per table row after the header.  The field map of              *)
(* HHLAScraper.parse is CheckHeader, MapColumn per header cell, Accept.    *)
(*                                                                         *)
(* Part 7: HHLAScraper.fetch: FetchHttp, FetchPlaywright and Backoff, each *)
(* fetch succeeding or failing as the network decides.                     *)
(*                                                                         *)
(* Part 8: the webhook API (src/scraper_api.py).  Request threads and      *)
(* background threads interleave at every access to _lock and to the       *)
(* shared dictionaries.                                                    *)
(*                                                                         *)
(* Part 9: the email-triggered workflow                                    *)
(* (src/orchestrator/email_handler.py): fetch, one pipeline run, one reply *)
(* per email, then the batch that marks the answered emails.               *)
(***************************************************************************)
EXTENDS Integers, Sequences, FiniteSets, TLC

VARIABLES
    watches,    \* vessel_watches: id -> [last_known_eta, notification_enabled]
    schedule,   \* latest_schedule: vessel -> newest observed eta, or NoRow
    notifs,     \* eta_change_notifications, in insertion order (id = index)
    creds,      \* EMAIL_ADDRESS and EMAIL_PASSWORD are both set
    pc,         \* "idle" | "loop" | "done": position of check_eta_changes
    pending,    \* watches fetched by this cycle and not yet processed
    counts,     \* the locals checked / notified / errors
    summary,    \* what the last call of check_eta_changes returned
    trace,      \* history: one record per watch processed in this cycle
    hist        \* history, per watch: recorded = the transition from its
                \* last_known_eta to the present observation has been inserted;
                \* failedAt = the observation whose email failed while every
                \* other call succeeded, until the observation changes

dvars == <<watches, schedule, notifs, creds, pc, pending, counts, summary,
           trace, hist>>

VARIABLES
    eurogate,   \* cross_match: the list of Eurogate records (dicts)
    hhla,       \* cross_match: the list of HHLA records (dicts)
    result,     \* cross_match: the output list built so far
    hhla_used,  \* cross_match: indices of consumed HHLA records
    origin,     \* history: for each entry of result, the indices it came from
    mpc         \* "match" | "done", or "merge" | "merged" for _merge_pair alone

mvars == <<eurogate, hhla, result, hhla_used, origin, mpc>>

VARIABLES
    table,      \* _build_logical_grid: the rows of the table, each a list of cells
    grid,       \* the logical rows built so far
    occupied    \* (row, column) -> text injected by a rowspan of an earlier row

gvars == <<table, grid, occupied>>

VARIABLES
    raw_name,    \* normalize_vessel_name: the argument, a string or None
    norm_key,    \* the value returned for raw_name
    twice,       \* the value returned for norm_key
    prevkey,     \* history: the key of the name this name is a variation of
    npc          \* "in" | "out" | "again": what has been computed for raw_name

nvars == <<raw_name, norm_key, twice, prevkey, npc>>

VARIABLES
    src_eg,      \* input: what EurogateScraper.run does, "raise" or the number of records
    src_hh,      \* input: what HHLAScraper.run does
    src_pairs,   \* input: how many pairs cross_match forms
    sync_cfg,    \* input: the datastore is configured and reachable
    det_raises,  \* input: check_eta_changes raises
    ppc,         \* position of run_full
    scraped,     \* the lists run_scrape returned, as [eurogate, hhla] lengths
    exported,    \* rows written by export_excel, -1 before
    supabase_result,  \* what sync_to_supabase returned
    watchlist_result,  \* the watchlist part of the summary
    full_summary,  \* what run_full returned
    propagated   \* the exception run_full propagated, or "none"

pvars == <<src_eg, src_hh, src_pairs, sync_cfg, det_raises, ppc, scraped, exported, supabase_result, watchlist_result, full_summary, propagated>>

VARIABLES
    ex_kind,     \* "eurogate" | "hhla": whose parse is running
    ex_colmap,   \* HHLA: col_map, field -> column index
    ex_rows,     \* the rows after the header, each a list of raw cell contents
    ex_pos,      \* index of the next row of the loop
    ex_vessels,  \* the list vessels built so far
    ex_from      \* history: for each record, the index of its row

evars == <<ex_kind, ex_colmap, ex_rows, ex_pos, ex_vessels, ex_from>>

VARIABLES
    hd_cells,    \* HHLAScraper.parse: the texts of the cells of one table row
    hd_idx,      \* index of the next token of the loop of line 172
    hd_map,      \* table_col_map: field -> column index
    hpc          \* "row" | "map" | "accepted" | "rejected"

hvars == <<hd_cells, hd_idx, hd_map, hpc>>

VARIABLES
    f_cfg,       \* HHLAScraper: retry_attempts, retry_delay and timeout of the configuration
    f_attempt,   \* the loop variable attempt
    fpc,         \* "http" | "playwright" | "sleep" | "returned" | "raised"
    f_log        \* history: the fetches and sleeps of this call, in order

fvars == <<f_cfg, f_attempt, fpc, f_log>>

VARIABLES
    last_run,    \* _last_run: status, summary, error
    rlock,       \* _lock: the thread holding it, or "none"
    rreq,        \* per request thread: pc and the last response it gave
    rworkers,    \* the _run_pipeline threads started, in order: pc and outcome of run_full
    narrived     \* number of POST /webhook/run-scraper requests so far

rvars == <<last_run, rlock, rreq, rworkers, narrived>>

VARIABLES
    te_jobs,     \* _test_email_jobs: job id -> status, "absent" when not a key
    te_handler,  \* per job id: how far trigger_test_email has come
    te_worker,   \* per job id: how far _run_test_email has come
    te_resp      \* the last answer of test_email_status

tvars == <<te_jobs, te_handler, te_worker, te_resp>>

VARIABLES
    wf_pc,       \* position in run_email_workflow
    wf_emails,   \* number of matching emails fetch_new_emails returned
    wf_runs,     \* number of calls of run_full
    wf_handled,  \* emails the loop has taken up
    wf_archived,  \* emails whose attachment was written to data/inbox
    wf_sent,     \* emails whose reply was sent without error
    processed_ids,  \* line 185
    wf_seen      \* emails carrying the \\Seen flag in the mailbox

wvars == <<wf_pc, wf_emails, wf_runs, wf_handled, wf_archived, wf_sent, processed_ids, wf_seen>>

vars == <<dvars, mvars, gvars, nvars, pvars, evars, hvars, fvars, rvars, tvars, wvars>>

\* for each part, the state of all the other parts
frameD == <<mvars, gvars, nvars, pvars, evars, hvars, fvars, rvars, tvars, wvars>>

frameM == <<dvars, gvars, nvars, pvars, evars, hvars, fvars, rvars, tvars, wvars>>

frameG == <<dvars, mvars, nvars, pvars, evars, hvars, fvars, rvars, tvars, wvars>>

frameN == <<dvars, mvars, gvars, pvars, evars, hvars, fvars, rvars, tvars, wvars>>

frameP == <<dvars, mvars, gvars, nvars, evars, hvars, fvars, rvars, tvars, wvars>>

frameE == <<dvars, mvars, gvars, nvars, pvars, hvars, fvars, rvars, tvars, wvars>>

frameH == <<dvars, mvars, gvars, nvars, pvars, evars, fvars, rvars, tvars, wvars>>

frameF == <<dvars, mvars, gvars, nvars, pvars, evars, hvars, rvars, tvars, wvars>>

frameR == <<dvars, mvars, gvars, nvars, pvars, evars, hvars, fvars, tvars, wvars>>

frameT == <<dvars, mvars, gvars, nvars, pvars, evars, hvars, fvars, rvars, wvars>>

frameW == <<dvars, mvars, gvars, nvars, pvars, evars, hvars, fvars, rvars, tvars>>

----------------------------------------------------------------------------
(* Bounds and value sets *)

MaxNotifs == 2

Watches == {"w1", "w2"}
\* both watches are subscriptions to the same vessel
Vessels == {"v1"}
VesselOf(w) == "v1"

\* An ETA string is modelled by what the code can tell about it: null, a
\* non-empty string datetime.fromisoformat rejects, or an ISO timestamp with
\* offset, whose instant t is counted in half days (12 h).
NullEta == [kind |-> "null", t |-> 0]
BadEta == [kind |-> "bad", t |-> 0]
Iso(t) == [kind |-> "iso", t |-> t]
NoRow == [kind |-> "norow", t |-> 0]

EtaTimes == {0, 1, 6}
IsoEtas == {Iso(t) : t \in EtaTimes}
\* _parse_german_datetime returns None or an ISO string with the Berlin offset
ScheduleEtas == {NullEta} \cup IsoEtas
\* what a watch holds before the first cycle: nothing, a value in a format
\* fromisoformat rejects, or an ISO string; later values come from the schedule
InitWatchEtas == {NullEta, BadEta, Iso(0)}

Last(s) == s[Len(s)]

----------------------------------------------------------------------------
(* Pure parts of the per-watch body *)

\* Python truthiness of an ETA value: None is falsy, the modelled strings are
\* non-empty
Truthy(e) == e.kind # "null"

\* datetime.fromisoformat succeeds exactly on the ISO strings
Parses(e) == e.kind = "iso"

\* timedelta.days of a difference d given in half days: floor(d / 2)
TimedeltaDays(d) == d \div 2

DelayDaysNoGuard(last_known_eta, current_eta) ==
    TimedeltaDays(current_eta.t - last_known_eta.t)

DelayDays(last_known_eta, current_eta) ==
    IF Truthy(last_known_eta) /\ Truthy(current_eta)
    THEN IF Parses(last_known_eta) /\ Parses(current_eta)
         THEN TimedeltaDays(current_eta.t - last_known_eta.t)
         ELSE 0     \* except (ValueError, TypeError): pass
    ELSE 0

\* Whether an exception of the delay computation leaves the loop body:
\* fromisoformat raises ValueError, the subtraction TypeError, both are caught
DelayRaises(last_known_eta, current_eta) == FALSE

ChangedUnlessNull(current_eta, last_known_eta) ==
    current_eta # last_known_eta \/ current_eta = NullEta

\* "No change" is string (or None) equality
Changed(current_eta, last_known_eta) == current_eta # last_known_eta

NotificationRowSwapped(watch_id, last_known_eta, current_eta, delay_days) ==
    [watch_id |-> watch_id, old_eta |-> current_eta,
     new_eta |-> last_known_eta, delay_days |-> delay_days,
     notification_sent |-> FALSE]

\* The inserted row; notification_sent is not given and defaults to false
NotificationRow(watch_id, last_known_eta, current_eta, delay_days) ==
    [watch_id |-> watch_id, old_eta |-> last_known_eta,
     new_eta |-> current_eta, delay_days |-> delay_days,
     notification_sent |-> FALSE]

\* _deliver_message: raises RuntimeError without credentials, otherwise the
\* outcome of the SMTP exchange
DeliverMessage(hasCreds, smtp) == IF hasCreds THEN smtp ELSE "raise"

MarkReachedBeforeSend(sendTried, sendOk, notif_id) == sendTried /\ notif_id # 0

\* The update to notification_sent = true runs after send_eta_notification
\* returned, and only when the insert reported an id
MarkReached(sendTried, sendOk, notif_id) == sendOk /\ notif_id # 0

UpdateReachedOnlyAfterMail(identityOk, sendTried, sendOk) ==
    identityOk /\ sendTried /\ sendOk

\* The watch update is reached when the insert and the identity lookup
\* returned; what happens inside the email block is swallowed
UpdateReached(identityOk, sendTried, sendOk) == identityOk

RestAfterErrorAbort(rest) == <<>>

\* The except clause of the loop body counts the error and the loop goes on
RestAfterError(rest) == rest

----------------------------------------------------------------------------
(* State *)

Faults ==
    [lookup : {"ok", "raise"}, insert : {"ok", "raise"}, echo : BOOLEAN,
     identity : {"addr", "none", "raise"}, smtp : {"ok", "raise"},
     mark : {"ok", "raise"}, update : {"ok", "raise"}]

NoSummary == [kind |-> "none", checked |-> 0, notified |-> 0, errors |-> 0]
ZeroCounts == [checked |-> 0, notified |-> 0, errors |-> 0]

ActiveWatches == {w \in Watches : watches[w].notification_enabled}

\* every order in which the query may return the set S of watches
Orders(S) ==
    {o \in [1..Cardinality(S) -> S] : \A i, j \in DOMAIN o : i # j => o[i] # o[j]}

\* the parts of the state a specification does not use stay at these values
DetectorUnused ==
    /\ watches = [w \in Watches |-> [last_known_eta |-> NullEta,
                                     notification_enabled |-> FALSE]]
    /\ schedule = [v \in Vessels |-> NoRow]
    /\ notifs = <<>>
    /\ creds = FALSE
    /\ pc = "idle"
    /\ pending = <<>>
    /\ counts = ZeroCounts
    /\ summary = NoSummary
    /\ trace = <<>>
    /\ hist = [w \in Watches |-> [recorded |-> FALSE, failedAt |-> NoRow]]

MatchUnused ==
    /\ eurogate = <<>>
    /\ hhla = <<>>
    /\ result = <<>>
    /\ hhla_used = {}
    /\ origin = <<>>
    /\ mpc = "unused"

GridUnused ==
    /\ table = <<>>
    /\ grid = <<>>
    /\ occupied = [p \in {} |-> <<>>]

NormalizeUnused ==
    /\ raw_name = <<>>
    /\ norm_key = <<>>
    /\ twice = <<>>
    /\ prevkey = <<>>
    /\ npc = "unused"

PipelineUnused ==
    /\ src_eg = [kind |-> "ok", n |-> 0]
    /\ src_hh = [kind |-> "ok", n |-> 0]
    /\ src_pairs = 0
    /\ sync_cfg = FALSE
    /\ det_raises = FALSE
    /\ ppc = "unused"
    /\ scraped = <<>>
    /\ exported = -1
    /\ supabase_result = <<>>
    /\ watchlist_result = <<>>
    /\ full_summary = <<>>
    /\ propagated = "none"

ExtractUnused ==
    /\ ex_kind = "unused"
    /\ ex_colmap = <<>>
    /\ ex_rows = <<>>
    /\ ex_pos = 0
    /\ ex_vessels = <<>>
    /\ ex_from = <<>>

HeaderUnused ==
    /\ hd_cells = <<>>
    /\ hd_idx = 0
    /\ hd_map = <<>>
    /\ hpc = "unused"

FetchUnused ==
    /\ f_cfg = <<>>
    /\ f_attempt = 0
    /\ fpc = "unused"
    /\ f_log = <<>>

RunApiUnused ==
    /\ last_run = <<>>
    /\ rlock = "none"
    /\ rreq = <<>>
    /\ rworkers = <<>>
    /\ narrived = 0

TestEmailUnused ==
    /\ te_jobs = <<>>
    /\ te_handler = <<>>
    /\ te_worker = <<>>
    /\ te_resp = <<>>

WorkflowUnused ==
    /\ wf_pc = "unused"
    /\ wf_emails = 0
    /\ wf_runs = 0
    /\ wf_handled = {}
    /\ wf_archived = {}
    /\ wf_sent = {}
    /\ processed_ids = <<>>
    /\ wf_seen = {}

InitDetector ==
    /\ watches \in [Watches -> [last_known_eta : InitWatchEtas,
                                notification_enabled : BOOLEAN]]
    /\ schedule \in [Vessels -> {NoRow} \cup ScheduleEtas]
    /\ notifs = <<>>
    /\ creds \in BOOLEAN
    /\ pc = "idle"
    /\ pending = <<>>
    /\ counts = ZeroCounts
    /\ summary = NoSummary
    /\ trace = <<>>
    /\ hist = [w \in Watches |-> [recorded |-> FALSE, failedAt |-> NoRow]]
    /\ MatchUnused
    /\ GridUnused
    /\ NormalizeUnused
    /\ PipelineUnused
    /\ ExtractUnused
    /\ HeaderUnused
    /\ FetchUnused
    /\ RunApiUnused
    /\ TestEmailUnused
    /\ WorkflowUnused

----------------------------------------------------------------------------
(* check_eta_changes *)

\* Lines 24-42: get the client, fetch the active watches.  An exception here
\* leaves check_eta_changes; an empty list returns the zero summary.
StartCycle ==
    /\ pc = "idle"
    /\ Len(notifs) + Cardinality(ActiveWatches) <= MaxNotifs
    /\ \E fetch \in {"ok", "raise"} :
         \/ /\ fetch = "raise"
            /\ summary' = [NoSummary EXCEPT !.kind = "raised"]
            /\ pc' = "done"
            /\ UNCHANGED pending
         \/ /\ fetch = "ok"
            /\ ActiveWatches = {}
            /\ summary' = [NoSummary EXCEPT !.kind = "returned"]
            /\ pc' = "done"
            /\ UNCHANGED pending
         \/ /\ fetch = "ok"
            /\ ActiveWatches # {}
            /\ \E o \in Orders(ActiveWatches) :
                 pending' = [i \in DOMAIN o |->
                               [id |-> o[i],
                                last_known_eta |-> watches[o[i]].last_known_eta]]
            /\ pc' = "loop"
            /\ summary' = NoSummary
    /\ UNCHANGED <<watches, schedule, notifs, creds, counts, trace, hist>>
    /\ UNCHANGED frameD

\* Lines 44-149: the loop body for the watch at the head of pending, under
\* the collaborator outcomes f.  A fault of a call that is not reached is
\* "ok" (Reachable).
Step(watch, f) ==
    LET watch_id == watch.id
        last_known_eta == watch.last_known_eta
        row == schedule[VesselOf(watch_id)]
        lookupOk == f.lookup = "ok"
        hasRow == lookupOk /\ row # NoRow
        current_eta == row
        changed == hasRow /\ Changed(current_eta, last_known_eta)
        delay_days == DelayDays(last_known_eta, current_eta)
        insertOk == changed /\ f.insert = "ok"
        notifIdx == Len(notifs) + 1
        notif_id == IF f.echo THEN notifIdx ELSE 0
        identityOk == insertOk /\ f.identity # "raise"
        sendTried == identityOk /\ f.identity = "addr"
        sendOk == sendTried /\ DeliverMessage(creds, f.smtp) = "ok"
        markTried == MarkReached(sendTried, sendOk, notif_id)
        markOk == markTried /\ f.mark = "ok"
        updateTried == UpdateReached(identityOk, sendTried, sendOk)
        updateOk == updateTried /\ f.update = "ok"
        fault == IF ~lookupOk THEN "lookup"
                 ELSE IF changed /\ ~insertOk THEN "insert"
                 ELSE IF insertOk /\ ~identityOk THEN "identity"
                 ELSE IF updateTried /\ ~updateOk THEN "update"
                 ELSE "none"
        raised == \/ fault # "none"
                  \/ changed /\ DelayRaises(last_known_eta, current_eta)
        Reachable ==
            /\ ~changed => f.insert = "ok" /\ f.echo
            /\ ~insertOk => f.identity = "addr" /\ f.echo
            /\ ~sendTried => f.smtp = "ok"
            /\ ~markTried => f.mark = "ok"
            /\ ~updateTried => f.update = "ok"
        inserted == NotificationRow(watch_id, last_known_eta, current_eta,
                                    delay_days)
    IN  /\ Reachable
        /\ notifs' =
             IF insertOk
             THEN Append(notifs, [inserted EXCEPT !.notification_sent = markOk])
             ELSE notifs
        /\ watches' =
             IF updateOk
             THEN [watches EXCEPT ![watch_id].last_known_eta = current_eta]
             ELSE watches
        /\ counts' = [checked |-> counts.checked + 1,
                      notified |-> counts.notified + (IF updateOk THEN 1 ELSE 0),
                      errors |-> counts.errors + (IF raised THEN 1 ELSE 0)]
        /\ pending' = IF raised THEN RestAfterError(Tail(pending))
                                ELSE Tail(pending)
        /\ trace' = Append(trace,
             [id |-> watch_id, last |-> last_known_eta, row |-> row,
              lookupOk |-> lookupOk, inserted |-> insertOk,
              notifIdx |-> IF insertOk THEN notifIdx ELSE 0,
              identityOk |-> identityOk,
              emailTried |-> sendTried, emailOk |-> sendOk,
              markFailed |-> markTried /\ ~markOk,
              wrote |-> updateOk, fault |-> fault, raised |-> raised])
        /\ hist' = [hist EXCEPT ![watch_id] =
             [recorded |-> IF updateOk THEN FALSE
                           ELSE IF insertOk THEN TRUE ELSE @.recorded,
              failedAt |-> IF sendTried /\ ~sendOk /\ ~raised
                           THEN current_eta ELSE @.failedAt]]

ProcessWatch ==
    /\ pc = "loop"
    /\ pending # <<>>
    /\ \E f \in Faults : Step(Head(pending), f)
    /\ UNCHANGED <<schedule, creds, pc, summary>>
    /\ UNCHANGED frameD

\* Lines 151-156: build and return the summary
FinishCycle ==
    /\ pc = "loop"
    /\ pending = <<>>
    /\ summary' = [kind |-> "returned", checked |-> counts.checked,
                   notified |-> counts.notified, errors |-> counts.errors]
    /\ pc' = "done"
    /\ UNCHANGED <<watches, schedule, notifs, creds, pending, counts, trace, hist>>
    /\ UNCHANGED frameD

\* The caller has taken the result (or the exception); the locals are gone
Return ==
    /\ pc = "done"
    /\ pc' = "idle"
    /\ summary' = NoSummary
    /\ counts' = ZeroCounts
    /\ trace' = <<>>
    /\ UNCHANGED <<watches, schedule, notifs, creds, pending, hist>>
    /\ UNCHANGED frameD

\* Between two cycles the sync stage stores a newer observation for a vessel
SyncSchedule ==
    /\ pc = "idle"
    /\ \E v \in Vessels, e \in ScheduleEtas :
         /\ schedule[v] # e
         /\ schedule' = [schedule EXCEPT ![v] = e]
         /\ hist' = [w \in Watches |->
                       IF VesselOf(w) = v
                       THEN [recorded |-> FALSE, failedAt |-> NoRow]
                       ELSE hist[w]]
    /\ UNCHANGED <<watches, notifs, creds, pc, pending, counts, summary, trace>>
    /\ UNCHANGED frameD

NextDetector ==
    StartCycle \/ ProcessWatch \/ FinishCycle \/ Return \/ SyncSchedule

SpecDetector == InitDetector /\ [][NextDetector]_vars

Spec == SpecDetector

----------------------------------------------------------------------------
(* Claims about the Change Detector, checked under SpecDetector *)

\* a loop body has just run: trace' has one more record than trace
StepTaken == pc = "loop" /\ Len(trace') = Len(trace) + 1

\* a cycle has come to its return statement
Completed == pc = "done" /\ summary.kind = "returned"

RaisedSteps == {k \in DOMAIN trace : trace[k].raised}
DeliveredSteps == {k \in DOMAIN trace : trace[k].emailOk}

\* C1: when a change is detected and only the email send fails, the watch's
\* last_known_eta is still set to the observed ETA in that cycle, and while
\* the observed ETA stays what it was, no later cycle inserts a notification
\* or attempts an email for that watch.
C1_EmailFailureStillAdvances ==
    [][StepTaken =>
        LET s == trace'[Len(trace')]
            w == Head(pending).id
        IN  /\ (s.emailTried /\ ~s.emailOk /\ ~s.raised)
                  => watches'[w].last_known_eta = s.row
            /\ (hist[w].failedAt # NoRow /\ hist[w].failedAt = schedule[VesselOf(w)])
                  => (notifs' = notifs /\ ~s.emailTried)]_vars

\* a watch is looked at again after its email failed, and nothing is inserted
C1_Witness ==
    \E w \in Watches :
        /\ hist[w].failedAt # NoRow
        /\ trace # <<>>
        /\ Last(trace).id = w
        /\ Last(trace).lookupOk
        /\ Last(trace).row = hist[w].failedAt
        /\ ~Last(trace).inserted
        /\ watches[w].last_known_eta = hist[w].failedAt

\* C2: over any sequence of cycles, failures included, the same transition
\* of the same watch is never recorded twice: no notification is inserted for
\* a watch whose pending transition already has a record.
C2_OneRecordPerTransition ==
    [][StepTaken =>
        (Len(notifs') > Len(notifs) => ~hist[Head(pending).id].recorded)]_vars

\* C3: in one cycle a watch is written if and only if a change was processed
\* for it (a row exists, it differs from last_known_eta, and no step other
\* than the email send failed); when written it holds the observed ETA, and
\* otherwise the watch records are left alone.
C3_WrittenIffChangeProcessed ==
    [][StepTaken =>
        LET s == trace'[Len(trace')]
            w == Head(pending).id
            processed == /\ s.lookupOk
                         /\ s.row # NoRow
                         /\ s.row # Head(pending).last_known_eta
                         /\ s.fault = "none"
                         /\ ~s.markFailed
        IN  /\ s.wrote <=> processed
            /\ processed => watches'[w].last_known_eta = s.row
            /\ ~processed => watches' = watches]_vars

\* C4: for a watch whose observed ETA equals its last_known_eta (both null
\* included) a cycle inserts nothing, attempts no email, writes no watch and
\* counts the watch neither as notified nor as an error.
C4_UnchangedIsNoOp ==
    [][StepTaken =>
        LET s == trace'[Len(trace')]
        IN  (s.lookupOk /\ s.row # NoRow /\ s.row = Head(pending).last_known_eta)
              => /\ notifs' = notifs
                 /\ watches' = watches
                 /\ ~s.emailTried
                 /\ counts'.notified = counts.notified
                 /\ counts'.errors = counts.errors
                 /\ counts'.checked = counts.checked + 1]_vars

\* an unchanged watch has been processed, here with both values null
C4_Witness ==
    /\ trace # <<>>
    /\ Last(trace).lookupOk
    /\ Last(trace).row = NullEta
    /\ Last(trace).last = NullEta

\* C5: for a watch with last_known_eta = null and a non-null observed ETA,
\* the cycle (its collaborators' calls for the record and the watch not
\* raising) inserts exactly one notification with old_eta = null, new_eta =
\* the observed ETA and delay_days = 0, and the watch then holds that ETA.
C5_FirstObservation ==
    [][StepTaken =>
        LET s == trace'[Len(trace')]
            w == Head(pending).id
        IN  (Head(pending).last_known_eta = NullEta /\ s.row.kind = "iso"
             /\ s.fault = "none")
              => /\ Len(notifs') = Len(notifs) + 1
                 /\ notifs'[Len(notifs')].watch_id = w
                 /\ notifs'[Len(notifs')].old_eta = NullEta
                 /\ notifs'[Len(notifs')].new_eta = s.row
                 /\ notifs'[Len(notifs')].delay_days = 0
                 /\ watches'[w].last_known_eta = s.row
                 /\ counts'.errors = counts.errors]_vars

\* a first observation has been recorded
C5_Witness ==
    /\ trace # <<>>
    /\ Last(trace).last = NullEta
    /\ Last(trace).row.kind = "iso"
    /\ Last(trace).fault = "none"
    /\ Last(trace).inserted
    /\ watches[Last(trace).id].last_known_eta = Last(trace).row

\* C6: a failure while processing one watch never keeps a later watch of the
\* list from being processed as it would have been, and the returned errors
\* count is the number of watches whose processing raised.
C6_FailureIsolated ==
    Completed =>
        /\ Len(trace) = Cardinality(ActiveWatches)
        /\ {trace[k].id : k \in DOMAIN trace} = ActiveWatches
        /\ summary.errors = Cardinality(RaisedSteps)
        /\ \A k \in DOMAIN trace :
             (trace[k].fault = "none" /\ trace[k].row # NoRow
              /\ trace[k].row # trace[k].last)
               => /\ trace[k].inserted
                  /\ notifs[trace[k].notifIdx].watch_id = trace[k].id
                  /\ notifs[trace[k].notifIdx].new_eta = trace[k].row
                  /\ watches[trace[k].id].last_known_eta = trace[k].row

\* the first watch raised and the second one was processed to the end
C6_Witness ==
    /\ Completed
    /\ Len(trace) = 2
    /\ trace[1].raised
    /\ trace[2].fault = "none"
    /\ trace[2].wrote
    /\ summary.errors = 1

\* C7: notification_sent is true only when send_eta_notification returned
\* without error for that very notification; a record whose email failed or
\* whose owner has no address stays false; and no existing record is ever
\* changed back (or changed at all) afterwards.
C7_SentOnlyAfterDelivery ==
    [][/\ \A i \in DOMAIN notifs :
            /\ i \in DOMAIN notifs'
            /\ notifs[i].notification_sent => notifs'[i].notification_sent
            /\ [notifs'[i] EXCEPT !.notification_sent = FALSE]
                 = [notifs[i] EXCEPT !.notification_sent = FALSE]
       /\ \A i \in DOMAIN notifs' \ DOMAIN notifs :
            LET s == trace'[Len(trace')]
            IN  /\ StepTaken
                /\ s.notifIdx = i
                /\ notifs'[i].notification_sent => (s.emailTried /\ s.emailOk)
                /\ (~s.emailTried \/ ~s.emailOk)
                     => ~notifs'[i].notification_sent]_vars

\* one record was marked sent after its email went out, another whose email
\* failed is unsent
C7_Witness ==
    /\ \E i \in DOMAIN notifs : notifs[i].notification_sent
    /\ trace # <<>>
    /\ Last(trace).emailTried
    /\ ~Last(trace).emailOk
    /\ Last(trace).inserted
    /\ ~notifs[Last(trace).notifIdx].notification_sent

\* C8: the summary has checked = number of active watches iterated, errors =
\* number of watches whose processing raised, notified = number of watches
\* whose email was delivered in the cycle, and no watch counted twice.
C8_SummaryCounts ==
    Completed =>
        /\ summary.checked = Len(trace)
        /\ summary.checked = Cardinality(ActiveWatches)
        /\ summary.errors = Cardinality(RaisedSteps)
        /\ summary.notified = Cardinality(DeliveredSteps)
        /\ summary.notified + summary.errors <= summary.checked

\* C9: delay_days is the whole-day difference new - old when both ETAs are
\* present and parse (floor of the difference in days, so exactly +3 and -3
\* for three days either way), 0 when either is absent or does not parse,
\* and a value that does not parse does not make the watch an error.
C9_DelayDays ==
    [][StepTaken =>
        LET s == trace'[Len(trace')]
            old == Head(pending).last_known_eta
            new == s.row
            both == old.kind = "iso" /\ new.kind = "iso"
        IN  /\ Len(notifs') > Len(notifs) =>
                LET d == notifs'[Len(notifs')].delay_days
                IN  /\ both => /\ 2 * d <= new.t - old.t
                               /\ new.t - old.t < 2 * (d + 1)
                    /\ ~both => d = 0
            /\ (s.lookupOk /\ new # NoRow /\ new # old /\ s.fault = "none")
                 => /\ Len(notifs') = Len(notifs) + 1
                    /\ counts'.errors = counts.errors]_vars

\* a delay of three days, a delay of minus three days or a change from an
\* unparseable value has been recorded
C9_Witness ==
    /\ \E i \in DOMAIN notifs : notifs[i].delay_days = 3
    /\ \E i \in DOMAIN notifs :
         notifs[i].old_eta = BadEta /\ notifs[i].delay_days = 0

\* C10: without the delivery credentials a cycle inserts no notification and
\* advances no watch's last_known_eta.
C10_NoCredentialsNoWork ==
    [][~creds =>
        /\ notifs' = notifs
        /\ \A w \in Watches :
             watches'[w].last_known_eta = watches[w].last_known_eta]_vars

----------------------------------------------------------------------------
(* Part 2: cross_match and _merge_pair *)

MaxA == 2
MaxB == 2

\* line 14, the default of fuzzy_match_threshold; cross_match is only called
\* with this value (line 175)
FUZZY_THRESHOLD == 85

\* A record is a dict: a function from its keys to string values.  A string
\* is a sequence of tokens.  In a vessel name the token 0 is a variation of
\* case or spacing; in an ETA a token d > 0 is the date d (DD.MM.YYYY) and 0
\* is other text; a terminal label is one token, a joined label several.
Get(d, k, default) == IF k \in DOMAIN d THEN d[k] ELSE default

Put(d, k, v) == [x \in DOMAIN d \cup {k} |-> IF x = k THEN v ELSE d[x]]

\* Python truthiness of a string
StrTruthy(v) == v # <<>>

\* normalize_vessel_name as far as matching needs it: names that differ in
\* case or spacing only have the same key
NormalizeName(name) == SelectSeq(name, LAMBDA c : c # 0)

RECURSIVE FirstDate(_)
\* parse_eta_date: the first date in the string, <<>> standing for None
FirstDate(eta_str) ==
    IF eta_str = <<>> THEN <<>>
    ELSE IF Head(eta_str) # 0 THEN <<Head(eta_str)>>
    ELSE FirstDate(Tail(eta_str))

\* fuzz.ratio on normalized names: 100 for equal names, otherwise the
\* similarity of the three modelled names
Ratio(a, b) ==
    IF a = b THEN 100
    ELSE IF {a, b} = {<<1>>, <<2>>} THEN 85
    ELSE IF {a, b} = {<<1>>, <<3>>} THEN 84
    ELSE 90

BelowThresholdInclusive(score, threshold) == score <= threshold

\* line 53
BelowThreshold(score, threshold) == score < threshold

DateConflictAbsentToo(eg_date, hh_date) == eg_date # hh_date

\* line 58: both dates present and different
DateConflict(eg_date, hh_date) ==
    StrTruthy(eg_date) /\ StrTruthy(hh_date) /\ eg_date # hh_date

BetterOrEqual(score, best_score) == score >= best_score

\* line 61
Better(score, best_score) == score > best_score

RECURSIVE ScanFrom(_, _, _, _, _, _, _)
\* lines 46-63: the scan of hhla from index j on; best = [match, score],
\* match = 0 standing for None
ScanFrom(j, eg_name, eg_date, hh_list, used, threshold, best) ==
    IF j > Len(hh_list) THEN best
    ELSE
        LET hh == hh_list[j]
            hh_name == NormalizeName(Get(hh, "vessel_name", <<>>))
            score == Ratio(eg_name, hh_name)
            hh_date == FirstDate(Get(hh, "eta", <<>>))
            skip == \/ j \in used
                    \/ BelowThreshold(score, threshold)
                    \/ DateConflict(eg_date, hh_date)
            next == IF ~skip /\ Better(score, best.score)
                    THEN [match |-> j, score |-> score]
                    ELSE best
        IN  ScanFrom(j + 1, eg_name, eg_date, hh_list, used, threshold, next)

\* lines 40-63
BestMatch(eg, hh_list, used, threshold) ==
    ScanFrom(1, NormalizeName(Get(eg, "vessel_name", <<>>)),
             FirstDate(Get(eg, "eta", <<>>)), hh_list, used, threshold,
             [match |-> 0, score |-> 0])

\* order of the strings the model uses as terminal labels
StrLess(a, b) == a # <<>> /\ b # <<>> /\ a[1] < b[1]

RECURSIVE JoinSorted(_)
\* " + ".join(sorted(T))
JoinSorted(T) ==
    IF T = {} THEN <<>>
    ELSE LET m == CHOOSE x \in T : \A y \in T : ~StrLess(y, x)
         IN  m \o JoinSorted(T \ {m})

MergePairOverwrite(eg, hh) ==
    [k \in DOMAIN eg \cup DOMAIN hh |->
        IF k \in DOMAIN hh /\ StrTruthy(hh[k]) THEN hh[k] ELSE eg[k]]

\* _merge_pair
MergePair(eg, hh) ==
    LET terminals == {Get(eg, "terminal", <<>>), Get(hh, "terminal", <<>>)}
        merged == Put(eg, "terminal", JoinSorted({t \in terminals : StrTruthy(t)}))
        fill == {k \in DOMAIN hh :
                    StrTruthy(hh[k]) /\ ~StrTruthy(Get(merged, k, <<>>))}
    IN  [k \in DOMAIN merged \cup fill |->
            IF k \in fill THEN hh[k] ELSE merged[k]]

MarkUsedNot(used, j) == used

\* line 66
MarkUsed(used, j) == used \cup {j}

UnmatchedScored(rec) == Put(rec, "match_score", 100)

\* lines 71-72 and 78-79: a copy with match_score 0
Unmatched(rec) == Put(rec, "match_score", 0)

RECURSIVE UnusedFrom(_, _, _)
\* lines 76-80: the indices not in used, in list order
UnusedFrom(j, n, used) ==
    IF j > n THEN <<>>
    ELSE (IF j \in used THEN <<>> ELSE <<j>>) \o UnusedFrom(j + 1, n, used)

EmitRestFirst(res, rest) == rest \o res

\* result.append in the second loop
EmitRest(res, rest) == res \o rest

SeqsUpTo(S, n) == UNION {[1..k -> S] : k \in 0..n}

EgRecords ==
    [vessel_name : {<<1>>, <<2>>}, eta : {<<>>, <<1, 0>>},
     terminal : {<<1>>}, berth : {<<>>}]

HhRecords ==
    [vessel_name : {<<1, 0>>, <<2>>, <<3>>}, eta : {<<>>, <<1>>, <<2, 1>>},
     terminal : {<<2>>}, berth : {<<5>>}]

InitMatch ==
    /\ eurogate \in SeqsUpTo(EgRecords, MaxA)
    /\ hhla \in SeqsUpTo(HhRecords, MaxB)
    /\ result = <<>>
    /\ hhla_used = {}
    /\ origin = <<>>
    /\ mpc = "match"
    /\ DetectorUnused
    /\ GridUnused
    /\ NormalizeUnused
    /\ PipelineUnused
    /\ ExtractUnused
    /\ HeaderUnused
    /\ FetchUnused
    /\ RunApiUnused
    /\ TestEmailUnused
    /\ WorkflowUnused

\* lines 39-73: the loop body for the next Eurogate record
MatchOne ==
    /\ mpc = "match"
    /\ Len(result) < Len(eurogate)
    /\ LET i == Len(result) + 1
           eg == eurogate[i]
           best == BestMatch(eg, hhla, hhla_used, FUZZY_THRESHOLD)
       IN  IF best.match # 0
           THEN /\ hhla_used' = MarkUsed(hhla_used, best.match)
                /\ result' = Append(result,
                       Put(MergePair(eg, hhla[best.match]), "match_score",
                           best.score))
                /\ origin' = Append(origin, [a |-> i, b |-> best.match])
           ELSE /\ hhla_used' = hhla_used
                /\ result' = Append(result, Unmatched(eg))
                /\ origin' = Append(origin, [a |-> i, b |-> 0])
    /\ UNCHANGED <<eurogate, hhla, mpc>>
    /\ UNCHANGED frameM

\* lines 75-82: the unmatched HHLA records, then return
AppendUnmatched ==
    /\ mpc = "match"
    /\ Len(result) = Len(eurogate)
    /\ LET rest == UnusedFrom(1, Len(hhla), hhla_used)
       IN  /\ result' = EmitRest(result,
                 [k \in DOMAIN rest |-> Unmatched(hhla[rest[k]])])
           /\ origin' = EmitRest(origin,
                 [k \in DOMAIN rest |-> [a |-> 0, b |-> rest[k]]])
    /\ mpc' = "done"
    /\ UNCHANGED <<eurogate, hhla, hhla_used>>
    /\ UNCHANGED frameM

NextMatch == MatchOne \/ AppendUnmatched

SpecMatch == InitMatch /\ [][NextMatch]_vars

----------------------------------------------------------------------------
(* Claims about cross_match *)

\* the result entries that come from a Eurogate record / a matched pair
FromA == {k \in DOMAIN origin : origin[k].a # 0}

Pairs == {k \in DOMAIN origin : origin[k].a # 0 /\ origin[k].b # 0}

\* score and dates of the Eurogate record i against the HHLA record j
ScoreOf(i, j) ==
    Ratio(NormalizeName(eurogate[i]["vessel_name"]),
          NormalizeName(hhla[j]["vessel_name"]))

DateOfA(i) == FirstDate(eurogate[i]["eta"])

DateOfB(j) == FirstDate(hhla[j]["eta"])

\* the HHLA records consumed before result entry k was produced
UsedBefore(k) == {origin[m].b : m \in 1..(k - 1)} \ {0}

\* the candidates the claims allow for result entry k
Eligible(k) ==
    {j \in (1..Len(hhla)) \ UsedBefore(k) :
        /\ ScoreOf(origin[k].a, j) >= FUZZY_THRESHOLD
        /\ \/ DateOfA(origin[k].a) = <<>>
           \/ DateOfB(j) = <<>>
           \/ DateOfA(origin[k].a) = DateOfB(j)}

\* C11: cross_match emits exactly one output record per Eurogate record and
\* uses every HHLA record exactly once, merged into one Eurogate record or
\* emitted unmatched, so the output has len(A) + len(B) - pairs records and
\* no HHLA record is ever merged into two Eurogate records.
C11_EveryRecordOnce ==
    /\ \A j \in 1..Len(hhla) :
           Cardinality({k \in DOMAIN origin : origin[k].b = j}) <= 1
    /\ (mpc = "done") =>
           /\ \A i \in 1..Len(eurogate) :
                  Cardinality({k \in DOMAIN origin : origin[k].a = i}) = 1
           /\ \A j \in 1..Len(hhla) :
                  Cardinality({k \in DOMAIN origin : origin[k].b = j}) = 1
           /\ Len(result) = Len(eurogate) + Len(hhla) - Cardinality(Pairs)
           /\ Len(origin) = Len(result)

C11_Witness ==
    /\ mpc = "done"
    /\ Len(eurogate) = 2
    /\ Len(hhla) = 2
    /\ Cardinality(Pairs) = 1
    /\ eurogate[1]["vessel_name"] = eurogate[2]["vessel_name"]
    /\ Len(result) = 3

\* C12: a pair is formed only when the name score is at least the threshold;
\* with a single candidate and no date conflict a score of 85 matches and a
\* score of 84 does not.
C12_ThresholdInclusive ==
    /\ \A k \in Pairs : ScoreOf(origin[k].a, origin[k].b) >= FUZZY_THRESHOLD
    /\ (/\ Len(hhla) = 1
        /\ Len(eurogate) >= 1
        /\ Len(origin) >= 1
        /\ ~(DateOfA(1) # <<>> /\ DateOfB(1) # <<>> /\ DateOfA(1) # DateOfB(1)))
       => /\ ScoreOf(1, 1) = 85 => origin[1].b = 1
          /\ ScoreOf(1, 1) = 84 => origin[1].b = 0

C12_Witness ==
    /\ mpc = "done"
    /\ \E k \in Pairs : result[k]["match_score"] = 85
    /\ \E k \in FromA \ Pairs : \E j \in 1..Len(hhla) :
           /\ ScoreOf(origin[k].a, j) = 84
           /\ DateOfA(origin[k].a) = <<>>
           /\ j \notin UsedBefore(k)

C14_BestCandidate ==
    \A k \in FromA :
        IF Eligible(k) = {}
        THEN origin[k].b = 0
        ELSE /\ origin[k].b \in Eligible(k)
             /\ \A j \in Eligible(k) :
                    \/ ScoreOf(origin[k].a, origin[k].b) > ScoreOf(origin[k].a, j)
                    \/ /\ ScoreOf(origin[k].a, origin[k].b) = ScoreOf(origin[k].a, j)
                       /\ origin[k].b <= j
             /\ result[k]["match_score"] = ScoreOf(origin[k].a, origin[k].b)

C14_Witness ==
    \E k \in Pairs :
        /\ origin[k].b = 1
        /\ 2 \in Eligible(k)
        /\ ScoreOf(origin[k].a, 1) = ScoreOf(origin[k].a, 2)

\* C15: the output lists the records derived from the Eurogate list in the
\* order of that list, then the unconsumed HHLA records in the order of the
\* HHLA list.
C15_OutputOrder ==
    (mpc = "done") =>
        /\ Len(result) >= Len(eurogate)
        /\ \A k \in 1..Len(eurogate) :
               /\ origin[k].a = k
               /\ result[k]["vessel_name"] = eurogate[k]["vessel_name"]
               /\ eurogate[k]["eta"] # <<>> => result[k]["eta"] = eurogate[k]["eta"]
        /\ \A k \in (Len(eurogate) + 1)..Len(result) :
               /\ origin[k].a = 0
               /\ origin[k].b \notin UsedBefore(Len(eurogate) + 1)
               /\ result[k]["vessel_name"] = hhla[origin[k].b]["vessel_name"]
               /\ result[k]["eta"] = hhla[origin[k].b]["eta"]
               /\ \A m \in (Len(eurogate) + 1)..(k - 1) :
                      origin[m].b < origin[k].b

C15_Witness ==
    /\ mpc = "done"
    /\ Len(eurogate) = 2
    /\ Len(result) = 4
    /\ hhla[1] # hhla[2]
    /\ eurogate[1] # eurogate[2]

\* the record rec with match_score 0 added and nothing else changed
KeptWithZero(out, rec) ==
    /\ DOMAIN out = DOMAIN rec \cup {"match_score"}
    /\ \A key \in DOMAIN rec : out[key] = rec[key]
    /\ out["match_score"] = 0

C16_State ==
    /\ \A k \in DOMAIN result :
           IF origin[k].b = 0 THEN KeptWithZero(result[k], eurogate[origin[k].a])
           ELSE IF origin[k].a = 0 THEN KeptWithZero(result[k], hhla[origin[k].b])
           ELSE /\ result[k]["match_score"] >= FUZZY_THRESHOLD
                /\ result[k]["match_score"] <= 100
    /\ (mpc = "done" /\ hhla = <<>>) =>
           /\ Len(result) = Len(eurogate)
           /\ \A k \in DOMAIN result : KeptWithZero(result[k], eurogate[k])

\* C16: an unmatched record keeps all its input fields and gets match_score
\* 0; a matched record has a match_score between the threshold and 100; with
\* an empty HHLA list the output is the Eurogate records, in order, each with
\* match_score 0; the input lists are never changed.
C16_UnmatchedKept ==
    /\ []C16_State
    /\ [][eurogate' = eurogate /\ hhla' = hhla]_vars

C16_Witness ==
    /\ mpc = "done"
    /\ Pairs # {}
    /\ FromA \ Pairs # {}
    /\ \E k \in DOMAIN origin : origin[k].a = 0

----------------------------------------------------------------------------
(* _merge_pair on its own *)

\* a key the record does not have
Absent == <<0, 0>>

\* the dict of the keys of r that are not Absent
Strip(r) == [k \in {x \in DOMAIN r : r[x] # Absent} |-> r[k]]

MergeEgRecords ==
    {Strip(r) : r \in
        [vessel_name : {<<1>>}, eta : {<<>>, <<1, 0>>},
         terminal : {Absent, <<>>, <<1>>, <<2>>},
         berth : {Absent, <<>>, <<5>>}]}

MergeHhRecords ==
    {Strip(r) : r \in
        [vessel_name : {<<1, 0>>}, eta : {<<>>, <<1>>},
         terminal : {Absent, <<>>, <<1>>, <<2>>},
         berth : {Absent, <<>>, <<6>>},
         voyage : {Absent, <<7>>}]}

InitMerge ==
    /\ eurogate \in [1..1 -> MergeEgRecords]
    /\ hhla \in [1..1 -> MergeHhRecords]
    /\ result = <<>>
    /\ hhla_used = {}
    /\ origin = <<>>
    /\ mpc = "merge"
    /\ DetectorUnused
    /\ GridUnused
    /\ NormalizeUnused
    /\ PipelineUnused
    /\ ExtractUnused
    /\ HeaderUnused
    /\ FetchUnused
    /\ RunApiUnused
    /\ TestEmailUnused
    /\ WorkflowUnused

\* one call of _merge_pair
MergeOnly ==
    /\ mpc = "merge"
    /\ result' = <<MergePair(eurogate[1], hhla[1])>>
    /\ mpc' = "merged"
    /\ UNCHANGED <<eurogate, hhla, hhla_used, origin>>
    /\ UNCHANGED frameM

NextMerge == MergeOnly

SpecMerge == InitMerge /\ [][NextMerge]_vars

\* the terminal label the claim expects for the labels a and b
ExpectedTerminal(a, b) ==
    IF a = <<>> THEN b
    ELSE IF b = <<>> \/ a = b THEN a
    ELSE IF a[1] < b[1] THEN a \o b
    ELSE b \o a

\* C17: the merged record keeps every non-blank field of the Eurogate record,
\* takes the HHLA value for every field that is blank or missing in the
\* Eurogate record, and its terminal is the distinct non-empty labels of the
\* two records, sorted and joined: "A" and "B" give "A + B", two equal labels
\* give the label once.
C17_MergePair ==
    (mpc = "merged") =>
        LET eg == eurogate[1]
            hh == hhla[1]
            merged == result[1]
        IN  /\ \A key \in DOMAIN eg \ {"terminal"} :
                   eg[key] # <<>> => (key \in DOMAIN merged /\ merged[key] = eg[key])
            /\ \A key \in DOMAIN hh \ {"terminal"} :
                   (key \notin DOMAIN eg \/ eg[key] = <<>>) /\ hh[key] # <<>>
                   => (key \in DOMAIN merged /\ merged[key] = hh[key])
            /\ "terminal" \in DOMAIN merged
            /\ merged["terminal"] =
                   ExpectedTerminal(Get(eg, "terminal", <<>>),
                                    Get(hh, "terminal", <<>>))

C17_Witness ==
    /\ mpc = "merged"
    /\ Get(eurogate[1], "terminal", <<>>) = <<2>>
    /\ Get(hhla[1], "terminal", <<>>) = <<1>>
    /\ result[1]["terminal"] = <<1, 2>>
    /\ Get(eurogate[1], "berth", <<>>) = <<5>>
    /\ Get(hhla[1], "berth", <<>>) = <<6>>
    /\ Get(result[1], "berth", <<>>) = <<5>>
    /\ eurogate[1]["eta"] = <<>>
    /\ result[1]["eta"] = <<1>>
    /\ "voyage" \in DOMAIN result[1]

----------------------------------------------------------------------------
(* Part 3: _build_logical_grid *)

MaxRows == 3
MaxCells == 4

\* The rowspan attribute of a cell as a string: <<>> is a cell without the
\* attribute (or with an empty one), <<-1>> a value that is no integer,
\* <<n>> the decimal n.
RowspanAttrs == {<<>>, <<-1>>, <<2>>, <<3>>}

\* lines 202-206: the default "1", int(), ValueError -> 1
ParseRowspan(rowspan_str) ==
    IF rowspan_str = <<>> THEN 1
    ELSE IF rowspan_str[1] < 0 THEN 1
    ELSE rowspan_str[1]

InjectRowsOneMore(row_idx, rowspan) == {row_idx + r : r \in 1..rowspan}

\* line 207: the rows row_idx + r for r in range(1, rowspan)
InjectRows(row_idx, rowspan) == {row_idx + r : r \in 1..(rowspan - 1)}

\* lines 207-208
Inject(occ, row_idx, col_idx, rowspan, text) ==
    LET keys == {<<r, col_idx>> : r \in InjectRows(row_idx, rowspan)}
    IN  [p \in DOMAIN occ \cup keys |-> IF p \in keys THEN text ELSE occ[p]]

\* occupied.pop(key), the dict that is left
Pop(occ, key) == [p \in DOMAIN occ \ {key} |-> occ[p]]

RECURSIVE Walk(_, _, _, _, _, _)
\* lines 192-213: the while loop for one row, from the given position on;
\* rows and columns count from 0 as in the code
Walk(row_idx, cells, phys_idx, col_idx, logical_row, occ) ==
    IF <<row_idx, col_idx>> \in DOMAIN occ
    THEN Walk(row_idx, cells, phys_idx, col_idx + 1,
              Append(logical_row, occ[<<row_idx, col_idx>>]),
              Pop(occ, <<row_idx, col_idx>>))
    ELSE IF phys_idx < Len(cells)
    THEN LET cell == cells[phys_idx + 1]
         IN  Walk(row_idx, cells, phys_idx + 1, col_idx + 1,
                  Append(logical_row, cell.text),
                  Inject(occ, row_idx, col_idx, ParseRowspan(cell.rowspan),
                         cell.text))
    ELSE [logical_row |-> logical_row, occupied |-> occ]

RECURSIVE SumTo(_, _)
\* lens[1] + ... + lens[r]
SumTo(lens, r) == IF r = 0 THEN 0 ELSE lens[r] + SumTo(lens, r - 1)

\* the table whose row r has lens[r] cells, with the rowspan attributes
\* attrs in markup order; the text of a cell is its place in the markup, so
\* all texts differ
MakeTable(lens, attrs) ==
    [r \in DOMAIN lens |->
        [i \in 1..lens[r] |->
            [text |-> <<r - 1, i - 1>>,
             rowspan |-> attrs[SumTo(lens, r - 1) + i]]]]

\* any table of at most MaxRows rows and MaxCells cells
InitGrid ==
    /\ \E n \in 0..MaxRows, m \in 0..MaxCells :
           \E lens \in [1..n -> 0..m], attrs \in [1..m -> RowspanAttrs] :
               /\ SumTo(lens, n) = m
               /\ table = MakeTable(lens, attrs)
    /\ grid = <<>>
    /\ occupied = [p \in {} |-> <<>>]
    /\ DetectorUnused
    /\ MatchUnused
    /\ NormalizeUnused
    /\ PipelineUnused
    /\ ExtractUnused
    /\ HeaderUnused
    /\ FetchUnused
    /\ RunApiUnused
    /\ TestEmailUnused
    /\ WorkflowUnused

\* lines 184-215: the loop body for the next physical row
GridRow ==
    /\ Len(grid) < Len(table)
    /\ LET row_idx == Len(grid)
           w == Walk(row_idx, table[row_idx + 1], 0, 0, <<>>, occupied)
       IN  /\ grid' = Append(grid, w.logical_row)
           /\ occupied' = w.occupied
    /\ UNCHANGED table
    /\ UNCHANGED frameG

NextGrid == GridRow

SpecGrid == InitGrid /\ [][NextGrid]_vars

----------------------------------------------------------------------------
(* Claims about _build_logical_grid *)

\* the number of rows a cell declares to occupy
DeclaredSpan(cell) ==
    IF cell.rowspan \in {<<2>>, <<3>>} THEN cell.rowspan[1] ELSE 1

\* the physical cells of the table as [r, i], both counted from 0
PhysCells ==
    UNION {{[r |-> r - 1, i |-> i - 1] : i \in DOMAIN table[r]} : r \in DOMAIN table}

CellAt(p) == table[p.r + 1][p.i + 1]

\* the cells of earlier rows whose declared span reaches row r
Covering(r) == {p \in PhysCells : p.r < r /\ p.r + DeclaredSpan(CellAt(p)) > r}

\* every row has, with the cells that span into it, as many cells as row 0
Consistent ==
    \A r \in 0..(Len(table) - 1) :
        Len(table[r + 1]) + Cardinality(Covering(r)) = Len(table[1])

\* the place (from 1) of a physical cell in the grid row of its own row
ColumnOf(p) ==
    CHOOSE c \in 1..Len(grid[p.r + 1]) : grid[p.r + 1][c] = CellAt(p).text

\* grid row r (from 0) has the text of cell p at the column of p
HasAtColumn(r, p) ==
    /\ Len(grid[r + 1]) >= ColumnOf(p)
    /\ grid[r + 1][ColumnOf(p)] = CellAt(p).text

\* C18: for a table whose declared rowspans are consistent every grid row
\* has exactly as many columns as the header row, and the grid has one row
\* per physical table row.
C18_Rectangular ==
    /\ Len(grid) <= Len(table)
    /\ Consistent =>
           \A k \in DOMAIN grid : Len(grid[k]) = Len(table[1])

C18_Witness ==
    /\ Len(table) = 3
    /\ Len(grid) = 3
    /\ Consistent
    /\ Len(table[1]) = 2
    /\ \E p \in PhysCells : p.r = 0 /\ DeclaredSpan(CellAt(p)) = 3
    /\ \E p \in PhysCells : CellAt(p).rowspan = <<-1>>

\* C19: a physical cell with rowspan N at row r, column c appears with
\* unchanged text at column c of each of the rows r .. r+N-1 that exist;
\* the physical cells of those rows are shifted, not written over it.
C19_SpanRepeated ==
    (Len(grid) = Len(table)) =>
        \A p \in PhysCells :
            \A r \in p.r..(p.r + DeclaredSpan(CellAt(p)) - 1) :
                r < Len(table) => HasAtColumn(r, p)

\* C20: a physical row without cells of its own, into which earlier rows
\* span, is emitted and holds every spanning value at the column of the
\* spanning cell.
C20_InjectedOnlyRow ==
    \A r \in 0..(Len(grid) - 1) :
        Len(table[r + 1]) = 0 =>
            \A p \in Covering(r) : HasAtColumn(r, p)

----------------------------------------------------------------------------
(* Part 4: normalize_vessel_name *)

MaxLen == 4

\* A string is a sequence of characters.  "nbsp" is U+00A0, a whitespace
\* character outside ASCII; "a" and "A" are a letter in its two cases.
WhitespaceChars == {" ", "\t", "nbsp"}

Chars == {"a", "A", "-"} \cup WhitespaceChars

\* None as an argument
NoneName == <<"None">>

Names == SeqsUpTo(Chars, MaxLen) \cup {NoneName}

\* str.isspace, which both str.strip and the pattern \s use
IsSpace(c) == c \in WhitespaceChars

\* name or ""
OrEmpty(n) == IF n = NoneName \/ n = <<>> THEN <<>> ELSE n

RECURSIVE LStrip(_)
LStrip(str) ==
    IF str # <<>> /\ IsSpace(Head(str)) THEN LStrip(Tail(str)) ELSE str

RECURSIVE RStrip(_)
RStrip(str) ==
    IF str # <<>> /\ IsSpace(str[Len(str)])
    THEN RStrip(SubSeq(str, 1, Len(str) - 1))
    ELSE str

RECURSIVE LStripBlank(_)
LStripBlank(str) ==
    IF str # <<>> /\ Head(str) = " " THEN LStripBlank(Tail(str)) ELSE str

RECURSIVE RStripBlank(_)
RStripBlank(str) ==
    IF str # <<>> /\ str[Len(str)] = " "
    THEN RStripBlank(SubSeq(str, 1, Len(str) - 1))
    ELSE str

StripBlanksOnly(str) == RStripBlank(LStripBlank(str))

\* str.strip()
StripWs(str) == RStrip(LStrip(str))

UpperChar(c) == IF c = "a" THEN "A" ELSE c

UpperFirstOnly(str) ==
    [i \in DOMAIN str |-> IF i = 1 THEN UpperChar(str[i]) ELSE str[i]]

\* str.upper()
UpperStr(str) == [i \in DOMAIN str |-> UpperChar(str[i])]

RECURSIVE CollapseWs(_)
\* re.sub(r"\s+", " ", str)
CollapseWs(str) ==
    IF str = <<>> THEN <<>>
    ELSE IF IsSpace(Head(str))
    THEN <<" ">> \o CollapseWs(LStrip(str))
    ELSE <<Head(str)>> \o CollapseWs(Tail(str))

\* line 12
NormalizeVesselName(n) == CollapseWs(UpperStr(StripWs(OrEmpty(n))))

\* no key has been computed for an earlier form of the name
NoPrev == <<"none">>

SwapCase(c) == IF c = "a" THEN "A" ELSE IF c = "A" THEN "a" ELSE c

\* position i of str is whitespace at an end or next to other whitespace
Redundant(str, i) ==
    /\ IsSpace(str[i])
    /\ \/ i = 1
       \/ i = Len(str)
       \/ IsSpace(str[i - 1])
       \/ IsSpace(str[i + 1])

\* the names one edit away that differ from str in case or in the amount or
\* kind of whitespace only
Variations(str) ==
    {[str EXCEPT ![i] = SwapCase(str[i])] : i \in DOMAIN str}
    \cup {[str EXCEPT ![i] = w] :
             i \in {x \in DOMAIN str : IsSpace(str[x])}, w \in WhitespaceChars}
    \cup {SubSeq(str, 1, i - 1) \o SubSeq(str, i + 1, Len(str)) :
             i \in {x \in DOMAIN str : Redundant(str, x)}}
    \cup {SubSeq(str, 1, i) \o <<w>> \o SubSeq(str, i + 1, Len(str)) :
             i \in {x \in 0..Len(str) :
                       /\ Len(str) < MaxLen
                       /\ \/ x = 0
                          \/ x = Len(str)
                          \/ IsSpace(str[x])
                          \/ IsSpace(str[x + 1])},
             w \in WhitespaceChars}

InitNormalize ==
    /\ raw_name \in Names
    /\ norm_key = <<>>
    /\ twice = <<>>
    /\ prevkey = NoPrev
    /\ npc = "in"
    /\ DetectorUnused
    /\ MatchUnused
    /\ GridUnused
    /\ PipelineUnused
    /\ ExtractUnused
    /\ HeaderUnused
    /\ FetchUnused
    /\ RunApiUnused
    /\ TestEmailUnused
    /\ WorkflowUnused

\* normalize_vessel_name(raw_name)
Normalize ==
    /\ npc = "in"
    /\ norm_key' = NormalizeVesselName(raw_name)
    /\ npc' = "out"
    /\ UNCHANGED <<raw_name, twice, prevkey>>
    /\ UNCHANGED frameN

\* normalize_vessel_name applied to its own result
NormalizeAgain ==
    /\ npc = "out"
    /\ twice' = NormalizeVesselName(norm_key)
    /\ npc' = "again"
    /\ UNCHANGED <<raw_name, norm_key, prevkey>>
    /\ UNCHANGED frameN

\* the next call gets a variation of the name
Vary ==
    /\ npc = "again"
    /\ raw_name # NoneName
    /\ raw_name' \in Variations(raw_name) \ {raw_name}
    /\ prevkey' = norm_key
    /\ norm_key' = <<>>
    /\ twice' = <<>>
    /\ npc' = "in"
    /\ UNCHANGED frameN

NextNormalize == Normalize \/ NormalizeAgain \/ Vary

SpecNormalize == InitNormalize /\ [][NextNormalize]_vars

----------------------------------------------------------------------------
(* Claims about normalize_vessel_name *)

\* C21: normalize_vessel_name is idempotent, for the empty string and for
\* None too: applied to its own result it returns that result.
C21_Idempotent == (npc = "again") => twice = norm_key

C21_Witness ==
    /\ npc = "again"
    /\ raw_name = <<"\t", "a", "nbsp", " ">>
    /\ norm_key = <<"A">>
    /\ twice = <<"A">>

\* the characters of str that are not whitespace, with letters in upper case
Letters(str) ==
    LET kept == SelectSeq(OrEmpty(str), LAMBDA c : c \notin WhitespaceChars)
    IN  [i \in DOMAIN kept |-> IF kept[i] = "a" THEN "A" ELSE kept[i]]

----------------------------------------------------------------------------
(* Part 5: run_full *)

MaxScraped == 2

\* what a scraper's run() can do: raise, or return this many records
SourceOutcomes ==
    {[kind |-> "raise", n |-> 0]} \cup {[kind |-> "ok", n |-> k] : k \in 0..MaxScraped}

\* lines 18-29: an exception of a scraper leaves the empty list
ScrapedCount(outcome) == IF outcome.kind = "raise" THEN 0 ELSE outcome.n

\* cross_match: len(A) + len(B) - pairs records
CrossMatchCount(a, b, pairs) == a + b - pairs

\* build_dataframe, lines 101-119: pd.DataFrame([]) has no columns, so
\* df["eta"] raises KeyError; every scraped record has the key "eta"
BuildDataframeRaises(rows) == rows = 0

ZeroWatchlist == [checked |-> 0, notified |-> 0, errors |-> 0]

InitPipeline ==
    /\ src_eg \in SourceOutcomes
    /\ src_hh \in SourceOutcomes
    /\ src_pairs \in 0..1
    /\ src_pairs <= ScrapedCount(src_eg)
    /\ src_pairs <= ScrapedCount(src_hh)
    /\ sync_cfg \in BOOLEAN
    /\ det_raises \in BOOLEAN
    /\ ppc = "start"
    /\ scraped = <<>>
    /\ exported = -1
    /\ supabase_result = <<>>
    /\ watchlist_result = <<>>
    /\ full_summary = <<>>
    /\ propagated = "none"
    /\ DetectorUnused
    /\ MatchUnused
    /\ GridUnused
    /\ NormalizeUnused
    /\ ExtractUnused
    /\ HeaderUnused
    /\ FetchUnused
    /\ RunApiUnused
    /\ TestEmailUnused
    /\ WorkflowUnused

\* line 96, run_scrape
RunScrape ==
    /\ ppc = "start"
    /\ scraped' = [eurogate |-> ScrapedCount(src_eg), hhla |-> ScrapedCount(src_hh)]
    /\ ppc' = "scraped"
    /\ UNCHANGED <<src_eg, src_hh, src_pairs, sync_cfg, det_raises, exported,
                   supabase_result, watchlist_result, full_summary, propagated>>
    /\ UNCHANGED frameP

\* line 97, run_process: cross_match, build_dataframe, export_excel; an
\* exception here is not caught by run_full
RunProcess ==
    /\ ppc = "scraped"
    /\ LET rows == CrossMatchCount(scraped.eurogate, scraped.hhla, src_pairs)
       IN  IF BuildDataframeRaises(rows)
           THEN /\ propagated' = "KeyError"
                /\ ppc' = "raised"
                /\ UNCHANGED exported
           ELSE /\ exported' = rows
                /\ ppc' = "processed"
                /\ UNCHANGED propagated
    /\ UNCHANGED <<src_eg, src_hh, src_pairs, sync_cfg, det_raises, scraped,
                   supabase_result, watchlist_result, full_summary>>
    /\ UNCHANGED frameP

\* line 102, sync_to_supabase: never raises; a record whose upsert fails or
\* that has neither ETA nor ETD is not counted
SyncToSupabase ==
    /\ ppc = "processed"
    /\ IF sync_cfg
       THEN \E e \in 0..scraped.eurogate, h \in 0..scraped.hhla :
                supabase_result' = [ok |-> TRUE, eurogate_synced |-> e,
                                    hhla_synced |-> h, total_synced |-> e + h]
       ELSE supabase_result' = [ok |-> FALSE]
    /\ ppc' = "synced"
    /\ UNCHANGED <<src_eg, src_hh, src_pairs, sync_cfg, det_raises, scraped,
                   exported, watchlist_result, full_summary, propagated>>
    /\ UNCHANGED frameP

\* lines 105-111: check_eta_changes inside try/except
CheckWatchlist ==
    /\ ppc = "synced"
    /\ IF det_raises
       THEN watchlist_result' = ZeroWatchlist
       ELSE \E e \in 0..1 :
                watchlist_result' = [checked |-> 1, notified |-> 1 - e, errors |-> e]
    /\ ppc' = "watched"
    /\ UNCHANGED <<src_eg, src_hh, src_pairs, sync_cfg, det_raises, scraped,
                   exported, supabase_result, full_summary, propagated>>
    /\ UNCHANGED frameP

\* lines 113-129
ReturnSummary ==
    /\ ppc = "watched"
    /\ full_summary' = [eurogate_count |-> scraped.eurogate,
                        hhla_count |-> scraped.hhla,
                        total |-> scraped.eurogate + scraped.hhla,
                        supabase |-> supabase_result,
                        watchlist |-> watchlist_result]
    /\ ppc' = "returned"
    /\ UNCHANGED <<src_eg, src_hh, src_pairs, sync_cfg, det_raises, scraped,
                   exported, supabase_result, watchlist_result, propagated>>
    /\ UNCHANGED frameP

NextPipeline ==
    RunScrape \/ RunProcess \/ SyncToSupabase \/ CheckWatchlist \/ ReturnSummary

SpecPipeline == InitPipeline /\ [][NextPipeline]_vars

----------------------------------------------------------------------------
(* Claims about run_full *)

\* C23: whatever the scrapers, the watches and the Change Detector do,
\* run_full completes with a summary of per-stage counts and never
\* propagates an exception because a source or a watch failed; the records
\* of a source that succeeded reach cross-matching, export and sync.
C23_NeverAborts ==
    /\ propagated = "none"
    /\ ppc # "raised"
    /\ ppc \in {"processed", "synced", "watched", "returned"} =>
           exported >= scraped.eurogate /\ exported >= scraped.hhla
    /\ ppc = "returned" =>
           /\ full_summary.eurogate_count = ScrapedCount(src_eg)
           /\ full_summary.hhla_count = ScrapedCount(src_hh)

----------------------------------------------------------------------------
(* Part 6: the row loops of the two extractors *)

MaxDataRows == 2

\* eurogate_scraper.py, lines 124-130
COL_DATE == 0
COL_TIME == 1
COL_VESSEL == 3
COL_LOLA == 6

\* raw contents of a table cell: empty, whitespace only, text, text in
\* whitespace
CellContents == {<<>>, <<" ", "nbsp">>, <<"A">>, <<"\t", "A", " ">>}

\* get_text(strip=True) of a cell with one text node
GetText(cell) == StripWs(cell)

\* a Eurogate grid row of n columns with the given date, time and vessel
\* cells; the other columns hold the same text
EurogateRow(n, date_cell, time_cell, vessel_cell) ==
    [i \in 1..n |->
        IF i = COL_DATE + 1 THEN date_cell
        ELSE IF i = COL_TIME + 1 THEN time_cell
        ELSE IF i = COL_VESSEL + 1 THEN vessel_cell
        ELSE <<"-">>]

EurogateRows ==
    {EurogateRow(n, <<>>, <<>>, <<"A">>) : n \in {0, COL_VESSEL + 1, COL_LOLA}}
    \cup {EurogateRow(COL_LOLA + 1, d, d, v) : d \in {<<>>, <<"A">>}, v \in CellContents}

HhlaRows == SeqsUpTo(CellContents, 2)

SkipBlankNever(vessel_name) == FALSE

\* "if not vessel_name: continue"
SkipBlank(vessel_name) == vessel_name = <<>>

\* eurogate_scraper.py, lines 135-161: the record of a grid row, or <<>> for
\* a row that is skipped
EurogateRecord(texts) ==
    IF Len(texts) <= COL_LOLA THEN <<>>
    ELSE LET vessel_name == StripWs(texts[COL_VESSEL + 1])
             date_str == StripWs(texts[COL_DATE + 1])
             time_str == StripWs(texts[COL_TIME + 1])
         IN  IF SkipBlank(vessel_name) THEN <<>>
             ELSE <<[vessel_name |-> vessel_name,
                     eta |-> IF date_str # <<>> /\ time_str # <<>>
                             THEN date_str \o <<" ">> \o time_str
                             ELSE <<>>,
                     terminal |-> <<"EUROGATE Hamburg">>]>>

\* hhla_scraper.py, lines 200-204
GetField(col_map, texts, field) ==
    IF field \in DOMAIN col_map /\ col_map[field] < Len(texts)
    THEN StripWs(texts[col_map[field] + 1])
    ELSE <<>>

\* hhla_scraper.py, lines 195-227
HhlaRecord(col_map, texts) ==
    IF texts = <<>> THEN <<>>
    ELSE LET vessel_name == GetField(col_map, texts, "vessel_name")
         IN  IF SkipBlank(vessel_name) THEN <<>>
             ELSE <<[vessel_name |-> vessel_name,
                     eta |-> GetField(col_map, texts, "eta_planned"),
                     terminal |-> <<"HHLA Hamburg">>]>>

InitExtract ==
    /\ ex_kind \in {"eurogate", "hhla"}
    /\ IF ex_kind = "eurogate"
       THEN /\ ex_colmap = <<>>
            /\ ex_rows \in SeqsUpTo(EurogateRows, MaxDataRows)
       ELSE /\ ex_colmap \in {[vessel_name |-> v, eta_planned |-> 1 - v] : v \in 0..1}
            /\ ex_rows \in SeqsUpTo(HhlaRows, MaxDataRows)
    /\ ex_pos = 1
    /\ ex_vessels = <<>>
    /\ ex_from = <<>>
    /\ DetectorUnused
    /\ MatchUnused
    /\ GridUnused
    /\ NormalizeUnused
    /\ PipelineUnused
    /\ HeaderUnused
    /\ FetchUnused
    /\ RunApiUnused
    /\ TestEmailUnused
    /\ WorkflowUnused

\* one pass of "for row in grid[1:]" or "for row in rows[header_idx + 1:]"
ParseRow ==
    /\ ex_kind \in {"eurogate", "hhla"}
    /\ ex_pos <= Len(ex_rows)
    /\ LET texts == [i \in DOMAIN ex_rows[ex_pos] |-> GetText(ex_rows[ex_pos][i])]
           rec == IF ex_kind = "eurogate" THEN EurogateRecord(texts)
                  ELSE HhlaRecord(ex_colmap, texts)
       IN  /\ ex_vessels' = ex_vessels \o rec
           /\ ex_from' = IF rec = <<>> THEN ex_from ELSE Append(ex_from, ex_pos)
    /\ ex_pos' = ex_pos + 1
    /\ UNCHANGED <<ex_kind, ex_colmap, ex_rows>>
    /\ UNCHANGED frameE

NextExtract == ParseRow

SpecExtract == InitExtract /\ [][NextExtract]_vars

----------------------------------------------------------------------------
(* Claims about the extractors *)

\* the raw content of the vessel-name cell of row k, <<>> if the row has none
NameCell(k) ==
    LET col == IF ex_kind = "eurogate" THEN COL_VESSEL ELSE ex_colmap["vessel_name"]
    IN  IF col < Len(ex_rows[k]) THEN ex_rows[k][col + 1] ELSE <<>>

BlankCell(cell) == \A i \in DOMAIN cell : cell[i] \in WhitespaceChars

\* row k is long enough to be read by its extractor
Readable(k) ==
    IF ex_kind = "eurogate" THEN Len(ex_rows[k]) > COL_LOLA ELSE Len(ex_rows[k]) > 0

\* C24: every record of either extractor has a non-empty vessel_name; a row
\* whose vessel-name cell is blank or whitespace only produces no record,
\* and the rows after it are still processed.
C24_NameNeverEmpty ==
    /\ \A k \in DOMAIN ex_vessels :
           /\ ex_vessels[k]["vessel_name"] # <<>>
           /\ ~BlankCell(ex_vessels[k]["vessel_name"])
    /\ \A k \in 1..(ex_pos - 1) :
           (\E j \in DOMAIN ex_from : ex_from[j] = k)
               <=> (Readable(k) /\ ~BlankCell(NameCell(k)))
    /\ Len(ex_from) = Len(ex_vessels)

C24_Witness ==
    /\ ex_kind = "hhla"
    /\ Len(ex_rows) = 2
    /\ ex_pos = 3
    /\ Len(ex_rows[1]) = 2
    /\ NameCell(1) = <<" ", "nbsp">>
    /\ ex_from = <<2>>
    /\ ex_vessels[1]["vessel_name"] = <<"A">>

C24_WitnessEurogate ==
    /\ ex_kind = "eurogate"
    /\ Len(ex_rows) = 2
    /\ ex_pos = 3
    /\ Readable(1)
    /\ NameCell(1) = <<" ", "nbsp">>
    /\ ex_from = <<2>>

----------------------------------------------------------------------------
(* The field map of HHLAScraper.parse *)

MaxHeader == 3

\* A header text is a sequence of pieces: a word (in some case), "(Soll)",
\* or a character that is neither letter nor digit.  A token is the
\* sequence of its lower-case words: <<"ankunft", "soll">> is "ankunftsoll".
HeaderTexts ==
    {<<>>, <<"x">>, <<"Schiffsname">>, <<" ", "Ankunft">>,
     <<"Ankunft", " ", "(Soll)">>, <<"ankunft", "soll", "x">>}

\* str.lower() and the replacement of "(soll)" by "soll", per piece
LowerPiece(piece) ==
    CASE piece = "Schiffsname" -> "schiffsname"
      [] piece = "Ankunft" -> "ankunft"
      [] piece = "(Soll)" -> "soll"
      [] OTHER -> piece

\* _normalize_header: strip and lower, "(soll)" -> "soll", then every
\* character that is not a letter or digit removed
NormalizeHeader(value) ==
    LET lowered == [i \in DOMAIN value |-> LowerPiece(value[i])]
    IN  SelectSeq(lowered, LAMBDA piece : piece # " ")

\* HHLA_COLUMNS, the entries for three of the fields
HHLA_COLUMNS ==
    {[token |-> <<"ankunft", "soll">>, field |-> "eta_planned"],
     [token |-> <<"ankunft">>, field |-> "eta_actual"],
     [token |-> <<"schiffsname">>, field |-> "vessel_name"]}

\* HHLA_COLUMNS.get(token), "" standing for None
ColumnsGet(token) ==
    IF \E c \in HHLA_COLUMNS : c.token = token
    THEN (CHOOSE c \in HHLA_COLUMNS : c.token = token).field
    ELSE ""

\* line 162
HeaderTokens(cells) == [i \in DOMAIN cells |-> NormalizeHeader(cells[i])]

MayMapAlways(field, col_map) == field # ""

\* line 174: "if field and field not in table_col_map"
MayMap(field, col_map) == field # "" /\ field \notin DOMAIN col_map

InitHeader ==
    /\ hd_cells \in SeqsUpTo(HeaderTexts, MaxHeader)
    /\ hd_idx = 0
    /\ hd_map = <<>>
    /\ hpc = "row"
    /\ DetectorUnused
    /\ MatchUnused
    /\ GridUnused
    /\ NormalizeUnused
    /\ PipelineUnused
    /\ ExtractUnused
    /\ FetchUnused
    /\ RunApiUnused
    /\ TestEmailUnused
    /\ WorkflowUnused

\* lines 161-171: a row without cells or without both tokens is passed over
CheckHeader ==
    /\ hpc = "row"
    /\ LET header_tokens == HeaderTokens(hd_cells)
           has_vessel == \E i \in DOMAIN header_tokens :
                             header_tokens[i] = <<"schiffsname">>
           has_eta == \E i \in DOMAIN header_tokens :
                          header_tokens[i] = <<"ankunft", "soll">>
       IN  hpc' = IF header_tokens # <<>> /\ has_vessel /\ has_eta
                  THEN "map" ELSE "rejected"
    /\ hd_map' = [f \in {} |-> 0]
    /\ UNCHANGED <<hd_cells, hd_idx>>
    /\ UNCHANGED frameH

\* lines 172-175, one pass of the loop
MapColumn ==
    /\ hpc = "map"
    /\ hd_idx < Len(hd_cells)
    /\ LET field == ColumnsGet(HeaderTokens(hd_cells)[hd_idx + 1])
       IN  hd_map' = IF MayMap(field, hd_map)
                     THEN [f \in DOMAIN hd_map \cup {field} |->
                              IF f = field THEN hd_idx ELSE hd_map[f]]
                     ELSE hd_map
    /\ hd_idx' = hd_idx + 1
    /\ UNCHANGED <<hd_cells, hpc>>
    /\ UNCHANGED frameH

\* lines 177-181
Accept ==
    /\ hpc = "map"
    /\ hd_idx = Len(hd_cells)
    /\ hpc' = IF "vessel_name" \in DOMAIN hd_map THEN "accepted" ELSE "rejected"
    /\ UNCHANGED <<hd_cells, hd_idx, hd_map>>
    /\ UNCHANGED frameH

NextHeader == CheckHeader \/ MapColumn \/ Accept

SpecHeader == InitHeader /\ [][NextHeader]_vars

----------------------------------------------------------------------------
(* Claims about the field map *)

Fields == {c.field : c \in HHLA_COLUMNS}

TokenOf(f) == (CHOOSE c \in HHLA_COLUMNS : c.field = f).token

\* token a occurs inside token b
Contains(b, a) ==
    \E i \in 0..(Len(b) - Len(a)) : SubSeq(b, i + 1, i + Len(a)) = a

\* the columns (from 0) whose token is the token of f / contains it
ExactColumns(f) ==
    {i \in 0..(Len(hd_cells) - 1) : NormalizeHeader(hd_cells[i + 1]) = TokenOf(f)}

SubstringColumns(f) ==
    {i \in 0..(Len(hd_cells) - 1) :
        Contains(NormalizeHeader(hd_cells[i + 1]), TokenOf(f))}

Leftmost(S) == CHOOSE i \in S : \A j \in S : i <= j

\* C25 as stated: every field is mapped to the leftmost column whose token
\* matches the field's token, an exact match being preferred over a
\* substring match.
C25_ExactThenSubstring ==
    (hpc = "accepted") =>
        \A f \in Fields :
            IF ExactColumns(f) # {}
            THEN f \in DOMAIN hd_map /\ hd_map[f] = Leftmost(ExactColumns(f))
            ELSE IF SubstringColumns(f) # {}
            THEN f \in DOMAIN hd_map /\ hd_map[f] = Leftmost(SubstringColumns(f))
            ELSE f \notin DOMAIN hd_map

C25_ExactState ==
    (hpc = "accepted") =>
        \A f \in Fields :
            IF ExactColumns(f) # {}
            THEN f \in DOMAIN hd_map /\ hd_map[f] = Leftmost(ExactColumns(f))
            ELSE f \notin DOMAIN hd_map

\* C25, amended: every field is mapped to the leftmost column whose token
\* equals the field's token; a column whose token only contains the field's
\* token is not used; a field that is mapped is never overwritten.
C25_LeftmostExact ==
    /\ []C25_ExactState
    /\ [][hpc = "map" =>
            \A f \in DOMAIN hd_map : f \in DOMAIN hd_map' /\ hd_map'[f] = hd_map[f]]_vars

C25_Witness ==
    /\ hpc = "accepted"
    /\ hd_cells = <<<<"Ankunft", " ", "(Soll)">>, <<"Schiffsname">>, <<"Schiffsname">>>>
    /\ hd_map = [eta_planned |-> 0, vessel_name |-> 1]

----------------------------------------------------------------------------
(* Part 7: HHLAScraper.fetch *)

MaxAttempts == 3

\* retry_attempts, retry_delay and timeout as configured
FetchConfigs ==
    [retry_attempts : 0..MaxAttempts, retry_delay : {0, 1, 3}, timeout : {5, 20}]

\* max(a, b)
Max(a, b) == IF a >= b THEN a ELSE b

\* line 59
Attempts(cfg) == Max(1, cfg.retry_attempts)

\* line 62
TimeoutThisAttempt(cfg, attempt) == cfg.timeout + ((attempt - 1) * 10)

\* line 80
BackoffSeconds(cfg, attempt) == Max(1, cfg.retry_delay) * attempt

LastAttemptNever(attempt, attempts) == FALSE

\* line 78
LastAttempt(attempt, attempts) == attempt >= attempts

InitFetch ==
    /\ f_cfg \in FetchConfigs
    /\ f_attempt = 1
    /\ fpc = "http"
    /\ f_log = <<>>
    /\ DetectorUnused
    /\ MatchUnused
    /\ GridUnused
    /\ NormalizeUnused
    /\ PipelineUnused
    /\ ExtractUnused
    /\ HeaderUnused
    /\ RunApiUnused
    /\ TestEmailUnused
    /\ WorkflowUnused

\* lines 63-71: the plain fetch of this attempt
FetchHttp ==
    /\ fpc = "http"
    /\ \E ok \in BOOLEAN :
           /\ f_log' = Append(f_log,
                  [kind |-> "http", attempt |-> f_attempt,
                   secs |-> TimeoutThisAttempt(f_cfg, f_attempt), ok |-> ok])
           /\ fpc' = IF ok THEN "returned" ELSE "playwright"
    /\ UNCHANGED <<f_cfg, f_attempt>>
    /\ UNCHANGED frameF

\* lines 73-79: the scripted-rendering fetch of this attempt
FetchPlaywright ==
    /\ fpc = "playwright"
    /\ \E ok \in BOOLEAN :
           /\ f_log' = Append(f_log,
                  [kind |-> "playwright", attempt |-> f_attempt,
                   secs |-> TimeoutThisAttempt(f_cfg, f_attempt), ok |-> ok])
           /\ fpc' = IF ok THEN "returned"
                     ELSE IF LastAttempt(f_attempt, Attempts(f_cfg)) THEN "raised"
                     ELSE "sleep"
    /\ UNCHANGED <<f_cfg, f_attempt>>
    /\ UNCHANGED frameF

\* lines 80-85, then the next pass of the loop, or line 87 when the range
\* is used up
Backoff ==
    /\ fpc = "sleep"
    /\ f_log' = Append(f_log,
           [kind |-> "sleep", attempt |-> f_attempt,
            secs |-> BackoffSeconds(f_cfg, f_attempt), ok |-> TRUE])
    /\ f_attempt' = f_attempt + 1
    /\ fpc' = IF f_attempt + 1 <= Attempts(f_cfg) THEN "http" ELSE "raised"
    /\ UNCHANGED f_cfg
    /\ UNCHANGED frameF

NextFetch == FetchHttp \/ FetchPlaywright \/ Backoff

\* a fetch that has started answers or times out, and a sleep ends
SpecFetch == InitFetch /\ [][NextFetch]_vars /\ WF_vars(NextFetch)

----------------------------------------------------------------------------
(* Claims about HHLAScraper.fetch *)

Events(kind) == {k \in DOMAIN f_log : f_log[k].kind = kind}

C26_State ==
    LET attempts == IF f_cfg.retry_attempts >= 1 THEN f_cfg.retry_attempts ELSE 1
    IN  /\ Cardinality(Events("http")) <= attempts
        /\ Cardinality(Events("playwright")) <= Cardinality(Events("http"))
        /\ \A k \in Events("http") :
               /\ f_log[k].attempt = Cardinality({j \in Events("http") : j <= k})
               /\ f_log[k].secs = f_cfg.timeout + 10 * (f_log[k].attempt - 1)
        /\ \A k \in Events("playwright") :
               /\ k > 1
               /\ f_log[k - 1].kind = "http"
               /\ ~f_log[k - 1].ok
               /\ f_log[k - 1].attempt = f_log[k].attempt
               /\ f_log[k].secs = f_log[k - 1].secs
        /\ \A k \in Events("sleep") :
               /\ f_log[k].attempt < attempts
               /\ f_log[k].secs =
                      f_log[k].attempt
                          * (IF f_cfg.retry_delay >= 1 THEN f_cfg.retry_delay ELSE 1)
               /\ f_log[k - 1].kind = "playwright"
               /\ ~f_log[k - 1].ok
               /\ fpc \notin {"returned", "raised"} \/ k < Len(f_log)
        /\ fpc = "returned" =>
               /\ f_log[Len(f_log)].ok
               /\ \A k \in 1..(Len(f_log) - 1) : f_log[k].kind # "sleep" => ~f_log[k].ok
        /\ fpc = "raised" =>
               /\ \A k \in DOMAIN f_log : f_log[k].kind # "sleep" => ~f_log[k].ok
               /\ Cardinality(Events("http")) = attempts
               /\ Cardinality(Events("playwright")) = attempts

\* C26: fetch always terminates; it makes at most max(1, retry_attempts)
\* plain fetches and at most as many rendering fetches, a rendering fetch
\* only after the plain fetch of the same attempt failed; attempt k uses
\* timeout base + 10*(k-1); it sleeps max(1, retry_delay)*k between
\* attempts only, never after the last; it returns the first successful
\* markup and raises otherwise.
C26_BoundedRetries ==
    /\ []C26_State
    /\ <>(fpc \in {"returned", "raised"})

C26_Witness ==
    /\ fpc = "returned"
    /\ f_cfg.retry_attempts = 3
    /\ f_cfg.retry_delay = 0
    /\ Len(f_log) = 8
    /\ f_log[6].secs = 2
    /\ f_log[8].kind = "playwright"
    /\ f_log[8].secs = f_cfg.timeout + 20

----------------------------------------------------------------------------
(* Part 8: POST /webhook/run-scraper and _run_pipeline *)

MaxRequests == 3

\* the request threads of the server
RunHandlers == {"h1", "h2"}

IdleRun == [status |-> "idle", summary |-> "None", error |-> "None"]

LockFreeAlways(holder) == TRUE

\* threading.Lock: acquire blocks while another thread holds it
LockFree(holder) == holder = "none"

FinalStatusNoExcept(ok) == IF ok THEN "completed" ELSE "running"

\* lines 62 and 69
FinalStatus(ok) == IF ok THEN "completed" ELSE "failed"

\* lines 61-65 and 68-71
FinalRun(ok) ==
    [status |-> FinalStatus(ok),
     summary |-> IF ok THEN "summary" ELSE "None",
     error |-> IF ok THEN "None" ELSE "traceback"]

InitRunApi ==
    /\ last_run = IdleRun
    /\ rlock = "none"
    /\ rreq = [h \in RunHandlers |-> [pc |-> "idle", resp |-> 0]]
    /\ rworkers = <<>>
    /\ narrived = 0
    /\ DetectorUnused
    /\ MatchUnused
    /\ GridUnused
    /\ NormalizeUnused
    /\ PipelineUnused
    /\ ExtractUnused
    /\ HeaderUnused
    /\ FetchUnused
    /\ TestEmailUnused
    /\ WorkflowUnused

\* lines 79-81: a request arrives; without the right secret it is answered
\* 401, otherwise it goes on to the lock
Arrive(h) ==
    /\ rreq[h].pc = "idle"
    /\ narrived < MaxRequests
    /\ narrived' = narrived + 1
    /\ \E authorized \in BOOLEAN :
           rreq' = [rreq EXCEPT ![h] =
                       IF authorized THEN [pc |-> "lock", resp |-> 0]
                       ELSE [pc |-> "idle", resp |-> 401]]
    /\ UNCHANGED <<last_run, rlock, rworkers>>
    /\ UNCHANGED frameR

\* line 83: with _lock
AcquireRun(h) ==
    /\ rreq[h].pc = "lock"
    /\ LockFree(rlock)
    /\ rlock' = h
    /\ rreq' = [rreq EXCEPT ![h].pc = "check"]
    /\ UNCHANGED <<last_run, rworkers, narrived>>
    /\ UNCHANGED frameR

\* lines 84-88: the test of the status; 409 leaves the with block
CheckRunning(h) ==
    /\ rreq[h].pc = "check"
    /\ IF last_run.status = "running"
       THEN /\ rreq' = [rreq EXCEPT ![h] = [pc |-> "idle", resp |-> 409]]
            /\ rlock' = "none"
       ELSE /\ rreq' = [rreq EXCEPT ![h].pc = "switch"]
            /\ UNCHANGED rlock
    /\ UNCHANGED <<last_run, rworkers, narrived>>
    /\ UNCHANGED frameR

\* lines 90-94, and the end of the with block
SwitchToRunning(h) ==
    /\ rreq[h].pc = "switch"
    /\ last_run' = [status |-> "running", summary |-> "None", error |-> "None"]
    /\ rlock' = "none"
    /\ rreq' = [rreq EXCEPT ![h].pc = "spawn"]
    /\ UNCHANGED <<rworkers, narrived>>
    /\ UNCHANGED frameR

\* lines 96-102: the thread is started and the request answered 202
StartWorker(h) ==
    /\ rreq[h].pc = "spawn"
    /\ rworkers' = Append(rworkers, [pc |-> "run", ok |-> TRUE])
    /\ rreq' = [rreq EXCEPT ![h] = [pc |-> "idle", resp |-> 202]]
    /\ UNCHANGED <<last_run, rlock, narrived>>
    /\ UNCHANGED frameR

\* line 59: run_full returns or raises
WorkerRunFull(w) ==
    /\ rworkers[w].pc = "run"
    /\ \E ok \in BOOLEAN :
           rworkers' = [rworkers EXCEPT ![w] = [pc |-> "lock", ok |-> ok]]
    /\ UNCHANGED <<last_run, rlock, rreq, narrived>>
    /\ UNCHANGED frameR

\* lines 61 and 68: with _lock
WorkerAcquire(w) ==
    /\ rworkers[w].pc = "lock"
    /\ LockFree(rlock)
    /\ rlock' = "worker"
    /\ rworkers' = [rworkers EXCEPT ![w].pc = "store"]
    /\ UNCHANGED <<last_run, rreq, narrived>>
    /\ UNCHANGED frameR

\* lines 62-65 or 69-71, the end of the with block and of the thread
WorkerStore(w) ==
    /\ rworkers[w].pc = "store"
    /\ last_run' = FinalRun(rworkers[w].ok)
    /\ rlock' = "none"
    /\ rworkers' = [rworkers EXCEPT ![w].pc = "ended"]
    /\ UNCHANGED <<rreq, narrived>>
    /\ UNCHANGED frameR

HandlerStep ==
    \E h \in RunHandlers :
        AcquireRun(h) \/ CheckRunning(h) \/ SwitchToRunning(h) \/ StartWorker(h)

WorkerStep ==
    \E w \in DOMAIN rworkers :
        WorkerRunFull(w) \/ WorkerAcquire(w) \/ WorkerStore(w)

NextRunApi == (\E h \in RunHandlers : Arrive(h)) \/ HandlerStep \/ WorkerStep

\* a thread that can take a step takes it; requests need not arrive
SpecRunApi ==
    InitRunApi /\ [][NextRunApi]_vars /\ WF_vars(HandlerStep \/ WorkerStep)

----------------------------------------------------------------------------
(* Claims about the pipeline trigger *)

LiveWorkers == {w \in DOMAIN rworkers : rworkers[w].pc # "ended"}

C27_State ==
    /\ Cardinality(LiveWorkers) <= 1
    /\ Cardinality(LiveWorkers)
           + Cardinality({h \in RunHandlers : rreq[h].pc \in {"switch", "spawn"}}) <= 1

C27_Step ==
    \A h \in RunHandlers :
        /\ (rreq[h].pc = "check" /\ rreq'[h].pc # "check" /\ last_run.status = "running")
               => /\ rreq'[h].resp = 409
                  /\ rworkers' = rworkers
                  /\ last_run' = last_run
        /\ (rreq'[h].resp = 401 /\ rreq[h] # rreq'[h])
               => /\ last_run' = last_run
                  /\ rworkers' = rworkers
                  /\ rlock' = rlock
        /\ (rreq[h].pc = "check" /\ rreq'[h].pc = "switch")
               => last_run.status # "running" /\ rlock = h
        /\ (rreq[h].pc = "switch" /\ rreq'[h].pc = "spawn") => rlock = h

\* C27: under every interleaving of POST /webhook/run-scraper requests at
\* most one pipeline worker is running at any time: the status is tested and
\* switched to "running" under the lock, a request that finds "running" is
\* answered 409 and starts no thread, and an unauthorized request changes
\* no state.
C27_SingleFlight == []C27_State /\ [][C27_Step]_vars

C27_Witness ==
    /\ Len(rworkers) = 2
    /\ rworkers[1].pc = "ended"
    /\ rworkers[2].pc = "run"
    /\ \E h \in RunHandlers : rreq[h].resp = 409
    /\ \E h \in RunHandlers : rreq[h].resp = 202

C29_Step ==
    /\ last_run'.status # last_run.status =>
           \/ /\ last_run.status \in {"idle", "completed", "failed"}
              /\ last_run'.status = "running"
           \/ /\ last_run.status = "running"
              /\ last_run'.status \in {"completed", "failed"}
    /\ last_run'.status = "completed" =>
           last_run'.summary = "summary" /\ last_run'.error = "None"
    /\ last_run'.status = "failed" => last_run'.error = "traceback"

\* C29: every run started by the webhook eventually moves the status from
\* "running" to "completed" (summary stored, error cleared) or "failed"
\* (error stored); the status does not stay "running" once the worker has
\* ended, and it only goes idle/completed/failed -> running ->
\* completed/failed.
C29_RunEnds ==
    /\ (last_run.status = "running") ~> (last_run.status \in {"completed", "failed"})
    /\ [](last_run.status = "running" =>
             \/ LiveWorkers # {}
             \/ \E h \in RunHandlers : rreq[h].pc = "spawn")
    /\ [][C29_Step]_vars

C29_Witness ==
    /\ Len(rworkers) = 2
    /\ rworkers[1].pc = "ended"
    /\ ~rworkers[1].ok
    /\ rworkers[2].pc = "ended"
    /\ last_run.status = "completed"

----------------------------------------------------------------------------
(* Part 8, continued: POST /webhook/test-email, _run_test_email and
   GET /webhook/test-email-status/<job_id>.  A with _lock block that only
   touches _test_email_jobs is one step. *)

MaxJobs == 2

\* the uuid4 values the handler draws, one per accepted request
JobIds == 1..MaxJobs

NoResponse == [job |-> 0, code |-> 0, after202 |-> FALSE]

\* dict.get followed by "if not job"
JobsGet(jobs, j) == IF jobs[j] = "absent" THEN "None" ELSE jobs[j]

InitTestEmail ==
    /\ te_jobs = [j \in JobIds |-> "absent"]
    /\ te_handler = [j \in JobIds |-> "none"]
    /\ te_worker = [j \in JobIds |-> "none"]
    /\ te_resp = NoResponse
    /\ DetectorUnused
    /\ MatchUnused
    /\ GridUnused
    /\ NormalizeUnused
    /\ PipelineUnused
    /\ ExtractUnused
    /\ HeaderUnused
    /\ FetchUnused
    /\ RunApiUnused
    /\ WorkflowUnused

\* lines 123-134: a request without the secret or without a valid address
\* is answered 401 or 400 and nothing else happens
RejectTestEmail ==
    /\ \E code \in {400, 401} : te_resp' = [job |-> 0, code |-> code, after202 |-> FALSE]
    /\ UNCHANGED <<te_jobs, te_handler, te_worker>>
    /\ UNCHANGED frameT

\* lines 136-138: a new job id is drawn and the thread started
StartTestEmail(j) ==
    /\ te_handler[j] = "none"
    /\ \A i \in JobIds : i < j => te_handler[i] # "none"
    /\ te_handler' = [te_handler EXCEPT ![j] = "started"]
    /\ te_worker' = [te_worker EXCEPT ![j] = "register"]
    /\ UNCHANGED <<te_jobs, te_resp>>
    /\ UNCHANGED frameT

\* line 139: the 202 answer carrying job_id
AnswerTestEmail(j) ==
    /\ te_handler[j] = "started"
    /\ te_handler' = [te_handler EXCEPT ![j] = "answered"]
    /\ UNCHANGED <<te_jobs, te_worker, te_resp>>
    /\ UNCHANGED frameT

\* lines 26-33: the thread's first block writes the job's entry
RegisterJob(j) ==
    /\ te_worker[j] = "register"
    /\ te_jobs' = [te_jobs EXCEPT ![j] = "running"]
    /\ te_worker' = [te_worker EXCEPT ![j] = "send"]
    /\ UNCHANGED <<te_handler, te_resp>>
    /\ UNCHANGED frameT

\* lines 34-41 and 42-50: the mail is sent or the sending raises
FinishJob(j) ==
    /\ te_worker[j] = "send"
    /\ \E ok \in BOOLEAN :
           te_jobs' = [te_jobs EXCEPT ![j] = IF ok THEN "sent" ELSE "failed"]
    /\ te_worker' = [te_worker EXCEPT ![j] = "ended"]
    /\ UNCHANGED <<te_handler, te_resp>>
    /\ UNCHANGED frameT

\* lines 143-154, authorized
TestEmailStatus(j) ==
    /\ te_resp' = [job |-> j,
                   code |-> IF JobsGet(te_jobs, j) = "None" THEN 404 ELSE 200,
                   after202 |-> te_handler[j] = "answered"]
    /\ UNCHANGED <<te_jobs, te_handler, te_worker>>
    /\ UNCHANGED frameT

NextTestEmail ==
    \/ RejectTestEmail
    \/ \E j \in JobIds :
           \/ StartTestEmail(j)
           \/ AnswerTestEmail(j)
           \/ RegisterJob(j)
           \/ FinishJob(j)
           \/ TestEmailStatus(j)

SpecTestEmail == InitTestEmail /\ [][NextTestEmail]_vars

\* C28: once POST /webhook/test-email has answered 202 with a job id, an
\* authorized status request for that id never answers 404.
C28_JobFound == te_resp.after202 => te_resp.code # 404

----------------------------------------------------------------------------
(* Part 9: EmailAutomation.run_email_workflow *)

MaxEmails == 3

\* the first n elements of a sequence, as a set
Prefix(ids, n) == {ids[k] : k \in 1..(IF n < Len(ids) THEN n ELSE Len(ids))}

InitWorkflow ==
    /\ wf_pc = "fetch"
    /\ wf_emails = 0
    /\ wf_runs = 0
    /\ wf_handled = {}
    /\ wf_archived = {}
    /\ wf_sent = {}
    /\ processed_ids = <<>>
    /\ wf_seen = {}
    /\ DetectorUnused
    /\ MatchUnused
    /\ GridUnused
    /\ NormalizeUnused
    /\ PipelineUnused
    /\ ExtractUnused
    /\ HeaderUnused
    /\ FetchUnused
    /\ RunApiUnused
    /\ TestEmailUnused

\* lines 48-104 and 176-179.  The mailbox is selected read-write (55) and
\* every unseen message is fetched with RFC822 (67), which sets \Seen on
\* it at the server (RFC 3501, 6.4.5); the matching ones are returned.
FetchNewEmails ==
    /\ wf_pc = "fetch"
    /\ \/ /\ wf_pc' = "raised"
          /\ UNCHANGED <<wf_emails, wf_seen>>
       \/ \E n \in 0..MaxEmails :
             /\ wf_emails' = n
             /\ wf_seen' = 1..n
             /\ wf_pc' = IF n = 0 THEN "done" ELSE "run"
    /\ UNCHANGED <<wf_runs, wf_handled, wf_archived, wf_sent, processed_ids>>
    /\ UNCHANGED frameW

\* line 183: outside any try
WorkflowRunFull ==
    /\ wf_pc = "run"
    /\ wf_runs' = wf_runs + 1
    /\ \E ok \in BOOLEAN : wf_pc' = IF ok THEN "loop" ELSE "raised"
    /\ UNCHANGED <<wf_emails, wf_handled, wf_archived, wf_sent, processed_ids, wf_seen>>
    /\ UNCHANGED frameW

\* lines 186-210: one pass of the loop; the reply is attempted only when
\* archiving did not raise, the id is appended only when the reply did not
\* raise, and the except swallows either failure
HandleEmail ==
    /\ wf_pc = "loop"
    /\ LET i == Cardinality(wf_handled) + 1 IN
       /\ wf_handled' = wf_handled \cup {i}
       /\ \E archived \in BOOLEAN, delivered \in BOOLEAN :
              /\ wf_archived' = IF archived THEN wf_archived \cup {i} ELSE wf_archived
              /\ IF archived /\ delivered
                 THEN /\ wf_sent' = wf_sent \cup {i}
                      /\ processed_ids' = Append(processed_ids, i)
                 ELSE UNCHANGED <<wf_sent, processed_ids>>
       /\ wf_pc' = IF i = wf_emails THEN "mark" ELSE "loop"
    /\ UNCHANGED <<wf_emails, wf_runs, wf_seen>>
    /\ UNCHANGED frameW

\* lines 161-170 and 213: nothing to do for an empty list; otherwise one
\* connection, and a store per id until one raises (connecting or logging
\* in raising is the case of no store done)
BatchMarkProcessed ==
    /\ wf_pc = "mark"
    /\ IF processed_ids = <<>>
       THEN /\ wf_pc' = "done"
            /\ UNCHANGED wf_seen
       ELSE \E stored \in 0..Len(processed_ids) :
               /\ wf_seen' = wf_seen \cup Prefix(processed_ids, stored)
               /\ wf_pc' = IF stored = Len(processed_ids) THEN "done" ELSE "raised"
    /\ UNCHANGED <<wf_emails, wf_runs, wf_handled, wf_archived, wf_sent, processed_ids>>
    /\ UNCHANGED frameW

NextWorkflow == FetchNewEmails \/ WorkflowRunFull \/ HandleEmail \/ BatchMarkProcessed

SpecWorkflow == InitWorkflow /\ [][NextWorkflow]_vars

RunOnce ==
    /\ wf_pc \in {"loop", "mark"} => wf_runs = 1
    /\ wf_pc = "done" => wf_runs = IF wf_emails >= 1 THEN 1 ELSE 0
    /\ wf_runs <= 1

MarkedIffSent ==
    wf_pc \in {"done", "raised"} => \A i \in 1..wf_emails : i \in wf_seen <=> i \in wf_sent

AllHandled == wf_pc \in {"mark", "done"} => wf_handled = 1..wf_emails

\* C30: the pipeline is run exactly once when at least one matching email
\* was fetched and not at all when none was; at the end of the workflow an
\* email is marked as processed exactly when its reply was sent without
\* error; a failed email does not keep the loop from the remaining ones.
C30_Workflow == RunOnce /\ MarkedIffSent /\ AllHandled

====
